---- MODULE Spec2Model ----
(***************************************************************************)
(* Model of terraform-provider-neo4j: the node and relationship resources  *)
(* (Create, Read, Update, Delete, ImportState), the property codec they    *)
(* share, and the Cypher queries they send, evaluated on a property graph. *)
(*                                                                         *)
(* A Go string is a sequence of one-character strings, so that             *)
(* strconv.ParseInt, strconv.ParseFloat and fmt.Sprintf("%v") are computed *)
(* character by character.  A generated UUID is the two-element string     *)
(* <<"u", n>>: "u" is no digit, sign or dot, as the dashes of a UUID.      *)
(***************************************************************************)
EXTENDS Integers, Sequences, FiniteSets, TLC

VARIABLES
    vertices,   \* backend: element id -> [labels, props]
    edges,      \* backend: element id -> [type, start, end, props]
    nodeState,  \* framework state of each neo4j_node resource
    relState,   \* framework state of each neo4j_relationship resource
    nextUUID,   \* number of the next uuid.NewString() that a call keeps
    last,       \* request and response of the last lifecycle call
    codec,      \* the property codec applied to one map (codec specification)
    provider,   \* Provider.Configure: its inputs, its position, what it returned
    inflight    \* an Update and a Delete of a node running at the same time

vars == <<vertices, edges, nodeState, relState, nextUUID, last, codec, provider, inflight>>

----------------------------------------------------------------------------
\* Bounds of the model.

MaxNodeRes == 2      \* neo4j_node resources in the configuration
MaxRelRes == 1       \* neo4j_relationship resources in the configuration
MaxVertices == 2     \* vertices the backend holds at once
MaxEdges == 2        \* edges the backend holds at once
MaxUUID == 3         \* Creates that keep their uuid.NewString() in one run
MaxStrLen == 2       \* length of the declared strings the codec is applied to

NodeRes == 1..MaxNodeRes
RelRes == 1..MaxRelRes
PairRes == {1, 2}

----------------------------------------------------------------------------
\* Go strings.

Digits == {"0", "1", "2", "7"}
Chars == Digits \cup {"+", "-", ".", "q"}

\* The decimal digits, which the parsers accept; Digits are those the declared
\* strings of the codec specification are made of.
DecDigits == {"0", "1", "2", "3", "4", "5", "6", "7", "8", "9"}

DigitVal(c) ==
    CASE c = "0" -> 0 [] c = "1" -> 1 [] c = "2" -> 2 [] c = "3" -> 3 [] c = "4" -> 4
      [] c = "5" -> 5 [] c = "6" -> 6 [] c = "7" -> 7 [] c = "8" -> 8 [] c = "9" -> 9

DigitChar(d) ==
    CASE d = 0 -> "0" [] d = 1 -> "1" [] d = 2 -> "2" [] d = 3 -> "3"
      [] d = 4 -> "4" [] d = 5 -> "5" [] d = 6 -> "6" [] d = 7 -> "7"
      [] d = 8 -> "8" [] d = 9 -> "9"

IsDigits(s) == \A i \in 1..Len(s) : s[i] \in DecDigits

RECURSIVE DigitsToNat(_)
DigitsToNat(s) ==
    IF s = <<>> THEN 0
    ELSE 10 * DigitsToNat(SubSeq(s, 1, Len(s) - 1)) + DigitVal(s[Len(s)])

RECURSIVE NatToDigits(_)
NatToDigits(n) ==
    IF n < 10 THEN <<DigitChar(n)>>
    ELSE NatToDigits(n \div 10) \o <<DigitChar(n % 10)>>

RECURSIVE Pow10(_)
Pow10(e) == IF e = 0 THEN 1 ELSE 10 * Pow10(e - 1)

RECURSIVE StripTrailingZeros(_)
StripTrailingZeros(s) ==
    IF s # <<>> /\ s[Len(s)] = "0"
    THEN StripTrailingZeros(SubSeq(s, 1, Len(s) - 1))
    ELSE s

RECURSIVE StripLeadingZeros(_)
StripLeadingZeros(s) ==
    IF Len(s) > 1 /\ s[1] = "0" THEN StripLeadingZeros(Tail(s)) ELSE s

\* a <= b for two digit strings of one length.
DigitsLeq(a, b) ==
    \/ a = b
    \/ \E i \in 1..Len(a) :
          /\ DigitVal(a[i]) < DigitVal(b[i])
          /\ \A j \in 1..(i - 1) : a[j] = b[j]

\* 1<<63 - 1 and 1<<63, the largest magnitudes of an int64.
MaxInt64 ==
    <<"9", "2", "2", "3", "3", "7", "2", "0", "3", "6",
      "8", "5", "4", "7", "7", "5", "8", "0", "7">>
MinInt64 ==
    <<"9", "2", "2", "3", "3", "7", "2", "0", "3", "6",
      "8", "5", "4", "7", "7", "5", "8", "0", "8">>

MinInt64From9 ==
    <<"9", "2", "2", "3", "3", "7", "2", "0", "3", "6",
      "8", "5", "4", "7", "7", "5", "8", "0", "9">>
TenTo19 == <<"1">> \o [i \in 1..19 |-> "0"]
LongSeven == [i \in 1..19 |-> "0"] \o <<"7">>

\* The magnitude u, a digit string, fits an int64 of that sign.
InInt64(neg, u) ==
    LET z == StripLeadingZeros(u)
    IN  \/ Len(z) < Len(MaxInt64)
        \/ Len(z) = Len(MaxInt64) /\ DigitsLeq(z, IF neg THEN MinInt64 ELSE MaxInt64)

\* The numbers of the model are those of at most SmallDigits digits; a float
\* of more digits is held as its digits.
SmallDigits == 9

RECURSIVE PadLeft(_, _)
PadLeft(s, n) == IF Len(s) >= n THEN s ELSE PadLeft(<<"0">> \o s, n)

HasSign(s) == s # <<>> /\ s[1] \in {"+", "-"}
Unsigned(s) == IF HasSign(s) THEN Tail(s) ELSE s
UUID(n) == <<"u", NatToDigits(n)[1]>>

----------------------------------------------------------------------------
\* Backend property values: an int64, a float64 or a string.  One record
\* shape for the three: an int is (neg, m), a float is (neg, m / 10^e) with
\* no trailing zero in the fraction, a string is s.

IntVal(neg, m) == [t |-> "int", neg |-> neg /\ m # 0, m |-> m, e |-> 0, s |-> <<>>]
FloatVal(neg, m, e) == [t |-> "float", neg |-> neg, m |-> m, e |-> e, s |-> <<>>]
StrVal(s) == [t |-> "string", neg |-> FALSE, m |-> 0, e |-> 0, s |-> s]

\* strconv.ParseInt(s, 10, 64): an optional sign and one or more digits, the
\* value within the int64 range.
ParseIntOk(s) ==
    /\ Unsigned(s) # <<>>
    /\ IsDigits(Unsigned(s))
    /\ InInt64(HasSign(s) /\ s[1] = "-", Unsigned(s))
ParseInt(s) == IntVal(HasSign(s) /\ s[1] = "-", DigitsToNat(Unsigned(s)))

\* strconv.ParseFloat(s, 64) on the strings of Chars: an optional sign,
\* digits with at most one dot, at least one digit.
DotAt(s) == {i \in 1..Len(s) : s[i] = "."}
IntPart(s) == IF DotAt(s) = {} THEN s ELSE SubSeq(s, 1, (CHOOSE i \in DotAt(s) : TRUE) - 1)
FracPart(s) == IF DotAt(s) = {} THEN <<>> ELSE SubSeq(s, (CHOOSE i \in DotAt(s) : TRUE) + 1, Len(s))
ParseFloatOk(s) ==
    LET u == Unsigned(s)
    IN  /\ Cardinality(DotAt(u)) <= 1
        /\ IsDigits(IntPart(u)) /\ IsDigits(FracPart(u))
        /\ Len(IntPart(u)) + Len(FracPart(u)) >= 1
ParseFloat(s) ==
    LET u == Unsigned(s)
        frac == StripTrailingZeros(FracPart(u))
        digits == StripLeadingZeros(IntPart(u) \o frac)
        neg == HasSign(s) /\ s[1] = "-"
    IN  IF Len(digits) <= SmallDigits
        THEN FloatVal(neg, DigitsToNat(digits), Len(frac))
        ELSE [t |-> "float", neg |-> neg, m |-> 0, e |-> Len(frac), s |-> digits]

\* A conversion that tries the float before the integer.
ParseValueFloatFirst(s) ==
    IF ParseFloatOk(s) THEN ParseFloat(s)
    ELSE IF ParseIntOk(s) THEN ParseInt(s)
    ELSE StrVal(s)

\* A conversion without the float: what is no int64 stays a string.
ParseValueIntOrString(s) ==
    IF ParseIntOk(s) THEN ParseInt(s) ELSE StrVal(s)

\* readProperties, the value conversion: int before float before string.
ParseValue(s) ==
    IF ParseIntOk(s) THEN ParseInt(s)
    ELSE IF ParseFloatOk(s) THEN ParseFloat(s)
    ELSE StrVal(s)

\* fmt.Sprintf("%v", v) of an int64, a float64 (%g, shortest digits) or a string.
FormatValue(v) ==
    CASE v.t = "int" -> (IF v.neg THEN <<"-">> ELSE <<>>) \o NatToDigits(v.m)
      [] v.t = "float" ->
            (IF v.neg THEN <<"-">> ELSE <<>>)
            \o NatToDigits(v.m \div Pow10(v.e))
            \o (IF v.e = 0 THEN <<>>
                ELSE <<".">> \o PadLeft(NatToDigits(v.m % Pow10(v.e)), v.e))
      [] v.t = "string" -> v.s

----------------------------------------------------------------------------
\* Framework values (types.String, types.List, types.Map) and the models.

TfValue(s) == [kind |-> "value", s |-> s]
TfNull == [kind |-> "null", s |-> <<>>]
TfUnknown == [kind |-> "unknown", s |-> <<>>]
ValueString(v) == IF v.kind = "value" THEN v.s ELSE <<>>

ListNull == [null |-> TRUE, elems |-> <<>>]
ListValue(elems) == [null |-> FALSE, elems |-> elems]
MapNull == [null |-> TRUE, elems |-> <<>>]
MapValue(elems) == [null |-> FALSE, elems |-> elems]

NodeResourceModel(id, labels, properties) ==
    [id |-> id, labels |-> labels, properties |-> properties]
NodeNull == NodeResourceModel(TfNull, ListNull, MapNull)

RelationshipResourceModel(id, type, start, end, properties) ==
    [id |-> id, type |-> type, start_node_id |-> start, end_node_id |-> end,
     properties |-> properties]
RelationshipNull == RelationshipResourceModel(TfNull, TfNull, TfNull, TfNull, MapNull)

NoState(null) == [exists |-> FALSE, data |-> null]
State(data) == [exists |-> TRUE, data |-> data]

ReadLabelsLenient(labels) ==
    IF ~labels.null
    THEN [nil |-> FALSE,
          o |-> [i \in 1..Len(labels.elems) |-> ValueString(labels.elems[i])],
          err |-> FALSE]
    ELSE [nil |-> TRUE, o |-> <<>>, err |-> FALSE]

\* NodeResourceModel.ReadLabels: the labels as Go strings, nil when the list
\* is null; an unknown or a null element is an error.
ReadLabels(labels) ==
    IF ~labels.null
    THEN [nil |-> FALSE,
          o |-> [i \in 1..Len(labels.elems) |-> ValueString(labels.elems[i])],
          err |-> \E i \in 1..Len(labels.elems) : labels.elems[i].kind # "value"]
    ELSE [nil |-> TRUE, o |-> <<>>, err |-> FALSE]

\* readProperties.  The reserved key is looked up in `elements` right after
\* make(), before ElementsAs fills it.
readProperties(props) ==
    IF ~props.null
    THEN LET made == <<>>
             elements == props.elems
             err == \/ "uuid" \in DOMAIN made
                    \/ \E k \in DOMAIN elements : elements[k].kind # "value"
         IN  IF err THEN [nil |-> TRUE, o |-> <<>>, err |-> TRUE]
             ELSE [nil |-> FALSE,
                   o |-> [k \in DOMAIN elements |-> ParseValue(ValueString(elements[k]))],
                   err |-> FALSE]
    ELSE [nil |-> TRUE, o |-> <<>>, err |-> FALSE]

DecodePropertiesAlways(props, prior) ==
    MapValue([k \in DOMAIN props \ {"uuid"} |-> TfValue(FormatValue(props[k]))])

\* The property loop of read, of RelationshipResource.Read and of
\* RelationshipResource.ImportState: the backend properties without uuid, each
\* value formatted with %v; `prior` stays when the backend has at most one
\* property.
DecodeProperties(props, prior) ==
    IF Cardinality(DOMAIN props) > 1
    THEN LET tmp == [k \in DOMAIN props \ {"uuid"} |-> TfValue(FormatValue(props[k]))]
         IN  IF ~(prior.null /\ DOMAIN tmp = {}) THEN MapValue(tmp) ELSE prior
    ELSE prior

----------------------------------------------------------------------------
\* The backend: Cypher on a property graph.

Range(f) == {f[x] : x \in DOMAIN f}
SetProps(old, new) ==
    [k \in DOMAIN old \cup DOMAIN new |-> IF k \in DOMAIN new THEN new[k] ELSE old[k]]
UUIDProp(uuid) == [k \in {"uuid"} |-> StrVal(uuid)]
HasUUID(props, uuid) == "uuid" \in DOMAIN props /\ props["uuid"] = StrVal(uuid)

\* (n{uuid:$uuid})
MatchNodes(vs, uuid) == {v \in DOMAIN vs : HasUUID(vs[v].props, uuid)}

FreeId(f) == CHOOSE i \in 1..(Cardinality(DOMAIN f) + 1) : i \notin DOMAIN f
Extend(f, x, val) == [y \in DOMAIN f \cup {x} |-> IF y = x THEN val ELSE f[y]]
Restrict(f, S) == [x \in S |-> f[x]]

NodeCreateQueryFirstLabel(vs, uuid, labels, properties) ==
    LET new == FreeId(vs)
    IN  [vs |-> Extend(vs, new,
                    [labels |-> IF labels.o = <<>> THEN {} ELSE {labels.o[1]},
                     props |-> IF properties.nil THEN UUIDProp(uuid)
                               ELSE SetProps(UUIDProp(uuid), properties.o)]),
         n |-> {new}]

\* MERGE (n{uuid:$uuid}) FOREACH (l in $labels | SET n:$(l)) SET n += $properties
\* $labels and $properties are null when the Go value is nil.
NodeCreateQuery(vs, uuid, labels, properties) ==
    LET matched == MatchNodes(vs, uuid)
        new == FreeId(vs)
        merged == IF matched = {}
                  THEN Extend(vs, new, [labels |-> {}, props |-> UUIDProp(uuid)])
                  ELSE vs
        n == IF matched = {} THEN {new} ELSE matched
    IN  [vs |-> [v \in DOMAIN merged |->
                    IF v \in n
                    THEN [labels |-> merged[v].labels \cup Range(labels.o),
                          props |-> IF properties.nil THEN merged[v].props
                                    ELSE SetProps(merged[v].props, properties.o)]
                    ELSE merged[v]],
         n |-> n]

\* An Update query with MERGE for MATCH: it makes the vertex when none has
\* the uuid.
NodeUpdateQueryUpsert(vs, uuid, labels, properties) ==
    LET matched == MatchNodes(vs, uuid)
        new == FreeId(vs)
        merged == IF matched = {}
                  THEN Extend(vs, new, [labels |-> {}, props |-> UUIDProp(uuid)])
                  ELSE vs
        n == IF matched = {} THEN {new} ELSE matched
    IN  [vs |-> [v \in DOMAIN merged |->
                    IF v \in n
                    THEN [labels |-> Range(labels.o),
                          props |-> SetProps(IF properties.nil THEN <<>> ELSE properties.o,
                                             UUIDProp(uuid))]
                    ELSE merged[v]],
         n |-> n]

\* An Update query whose MATCH has no uuid: it binds every vertex.
NodeUpdateQueryAll(vs, uuid, labels, properties) ==
    [vs |-> [v \in DOMAIN vs |->
                [labels |-> IF labels.nil THEN {} ELSE Range(labels.o),
                 props |-> SetProps(IF properties.nil THEN <<>> ELSE properties.o,
                                    UUIDProp(uuid))]],
     n |-> DOMAIN vs]

NodeUpdateQueryMerge(vs, uuid, labels, properties) ==
    LET n == MatchNodes(vs, uuid)
    IN  [vs |-> [v \in DOMAIN vs |->
                    IF v \in n
                    THEN [labels |-> vs[v].labels \cup Range(labels.o),
                          props |-> SetProps(IF properties.nil THEN vs[v].props
                                             ELSE SetProps(vs[v].props, properties.o),
                                             UUIDProp(uuid))]
                    ELSE vs[v]],
         n |-> n]

NodeUpdateQueryRemoveLast(vs, uuid, labels, properties) ==
    LET n == MatchNodes(vs, uuid)
    IN  [vs |-> [v \in DOMAIN vs |->
                    IF v \in n
                    THEN [labels |-> Range(labels.o) \ vs[v].labels,
                          props |-> SetProps(IF properties.nil THEN <<>> ELSE properties.o,
                                             UUIDProp(uuid))]
                    ELSE vs[v]],
         n |-> n]

\* MATCH (n{uuid:$uuid}) FOREACH (l in labels(n) | REMOVE n:$(l))
\* FOREACH (l in $labels | SET n:$(l)) SET n = {} SET n += $properties, n.uuid = $uuid
NodeUpdateQuery(vs, uuid, labels, properties) ==
    LET n == MatchNodes(vs, uuid)
    IN  [vs |-> [v \in DOMAIN vs |->
                    IF v \in n
                    THEN [labels |-> Range(labels.o),
                          props |-> SetProps(IF properties.nil THEN <<>> ELSE properties.o,
                                             UUIDProp(uuid))]
                    ELSE vs[v]],
         n |-> n]

NodeDeleteQueryPlain(vs, es, uuid) ==
    LET n == MatchNodes(vs, uuid)
        attached == \E e \in DOMAIN es : es[e].start \in n \/ es[e].end \in n
    IN  [vs |-> IF attached THEN vs ELSE Restrict(vs, DOMAIN vs \ n),
         es |-> es,
         n |-> n]

\* MATCH (n{uuid:$uuid}) DETACH DELETE n
NodeDeleteQuery(vs, es, uuid) ==
    LET n == MatchNodes(vs, uuid)
    IN  [vs |-> Restrict(vs, DOMAIN vs \ n),
         es |-> Restrict(es, {e \in DOMAIN es : es[e].start \notin n /\ es[e].end \notin n}),
         n |-> n]

\* (nStart{uuid:$uuidStart}), (nEnd{uuid:$uuidEnd}): the rows of the pattern.
EndpointRows(vs, uuidStart, uuidEnd) == MatchNodes(vs, uuidStart) \X MatchNodes(vs, uuidEnd)

\* The edges of one type from s to e, the ones MERGE (s)-[r:type]->(e) binds.
EdgesBetween(es, type, s, e) ==
    {x \in DOMAIN es : es[x].type = type /\ es[x].start = s /\ es[x].end = e}

\* OPTIONAL MATCH (nStart{uuid:$uuidStart}), (nEnd{uuid:$uuidEnd})
\* MERGE (nStart)-[r:$($type)]->(nEnd) SET r += $properties, r.uuid = $uuid
\* MERGE binds r to the edges of that type the row already has and creates one
\* only when there is none.  The row of nulls that OPTIONAL MATCH gives when an
\* endpoint is missing yields no edge.
RelationshipCreateQuery(vs, es, uuid, uuidStart, uuidEnd, type, properties) ==
    LET rows == EndpointRows(vs, uuidStart, uuidEnd)
        creating == {row \in rows : EdgesBetween(es, type, row[1], row[2]) = {}}
        free == {i \in 1..(Cardinality(DOMAIN es) + Cardinality(creating)) : i \notin DOMAIN es}
        ids == {i \in free : Cardinality({j \in free : j < i}) < Cardinality(creating)}
        new == CHOOSE f \in [creating -> ids] : \A a, b \in creating : f[a] = f[b] => a = b
        merged == [x \in DOMAIN es \cup ids |->
                     IF x \in DOMAIN es THEN es[x]
                     ELSE LET row == CHOOSE row \in creating : new[row] = x
                          IN  [type |-> type, start |-> row[1], end |-> row[2], props |-> <<>>]]
        r == {new[row] : row \in creating}
             \cup UNION {EdgesBetween(es, type, row[1], row[2]) : row \in rows}
    IN  [es |-> [x \in DOMAIN merged |->
                    IF x \in r
                    THEN [merged[x] EXCEPT !.props =
                            SetProps(IF properties.nil THEN @ ELSE SetProps(@, properties.o),
                                     UUIDProp(uuid))]
                    ELSE merged[x]],
         r |-> r]

\* ({uuid:$uuidStart})-[r{uuid:$uuid}]->({uuid:$uuidEnd})
MatchDirected(vs, es, uuid, uuidStart, uuidEnd) ==
    {x \in DOMAIN es : /\ HasUUID(es[x].props, uuid)
                       /\ HasUUID(vs[es[x].start].props, uuidStart)
                       /\ HasUUID(vs[es[x].end].props, uuidEnd)}

\* ({uuid:$uuidStart})-[r:$($type){uuid:$uuid}]-({uuid:$uuidEnd}), either direction
MatchTyped(vs, es, uuid, uuidStart, uuidEnd, type) ==
    {x \in DOMAIN es :
        /\ es[x].type = type
        /\ HasUUID(es[x].props, uuid)
        /\ \/ /\ HasUUID(vs[es[x].start].props, uuidStart)
              /\ HasUUID(vs[es[x].end].props, uuidEnd)
           \/ /\ HasUUID(vs[es[x].start].props, uuidEnd)
              /\ HasUUID(vs[es[x].end].props, uuidStart)}

RelationshipUpdateQueryNoUUID(vs, es, uuid, uuidStart, uuidEnd, type, properties) ==
    LET r == MatchTyped(vs, es, uuid, uuidStart, uuidEnd, type)
    IN  [es |-> [x \in DOMAIN es |->
                    IF x \in r
                    THEN [es[x] EXCEPT !.props = IF properties.nil THEN <<>> ELSE properties.o]
                    ELSE es[x]],
         r |-> r]

\* OPTIONAL MATCH ({uuid:$uuidStart})-[r:$($type){uuid:$uuid}]-({uuid:$uuidEnd})
\* SET r = {} SET r += $properties, r.uuid = $uuid
RelationshipUpdateQuery(vs, es, uuid, uuidStart, uuidEnd, type, properties) ==
    LET r == MatchTyped(vs, es, uuid, uuidStart, uuidEnd, type)
    IN  [es |-> [x \in DOMAIN es |->
                    IF x \in r
                    THEN [es[x] EXCEPT !.props =
                            SetProps(IF properties.nil THEN <<>> ELSE properties.o,
                                     UUIDProp(uuid))]
                    ELSE es[x]],
         r |-> r]

\* OPTIONAL MATCH ({uuid:$uuidStart})-[r:$($type){uuid:$uuid}]-({uuid:$uuidEnd}) DELETE r
RelationshipDeleteQuery(vs, es, uuid, uuidStart, uuidEnd, type) ==
    LET r == MatchTyped(vs, es, uuid, uuidStart, uuidEnd, type)
    IN  [es |-> Restrict(es, DOMAIN es \ r), r |-> r]

\* MATCH (n)-[r{uuid:$uuid}]->(m)
\* RETURN {start_node_id:n.uuid, end_node_id:n.uuid, r: r} AS resp
RelationshipImportQuery(vs, es, uuid) ==
    {[r |-> x, start_node_id |-> vs[es[x].start].props["uuid"],
      end_node_id |-> vs[es[x].start].props["uuid"]] :
        x \in {y \in DOMAIN es : HasUUID(es[y].props, uuid)}}

----------------------------------------------------------------------------
\* The record of a lifecycle call.

\* op and res name the handler and the resource, id is the uuid the call
\* used, diag the kind of error reported, queries the number of client.Run
\* calls, wrote whether resp.State.Set ran, hit the elements the query bound.
Call(op, res, id, diag, queries, wrote, hit) ==
    [op |-> op, res |-> res, id |-> id,
     diag |-> diag, queries |-> queries, wrote |-> wrote, hit |-> hit]

Orders(S) == {o \in [1..Cardinality(S) -> S] : Range(o) = S}

----------------------------------------------------------------------------
\* NodeResource.

\* Schema: the attributes with the plan modifier RequiresReplace.  The
\* framework plans an in-place Update only when none of them changes, and a
\* Delete followed by a Create otherwise.
NodeRequiresReplace == {}
RelationshipRequiresReplaceEndOnly == {"end_node_id"}
RelationshipRequiresReplace == {"start_node_id", "end_node_id"}

PlansUpdate(requiresReplace, prior, plan) == \A a \in requiresReplace : plan[a] = prior[a]

readLabelsAlways(prior, nodeLabels) ==
    ListValue([i \in DOMAIN nodeLabels |-> TfValue(nodeLabels[i])])

\* read, the labels: node.Labels, unless the prior labels are null and the
\* vertex has none.
readLabels(prior, nodeLabels) ==
    IF ~(prior.null /\ Len(nodeLabels) = 0)
    THEN ListValue([i \in DOMAIN nodeLabels |-> TfValue(nodeLabels[i])])
    ELSE prior

readLenient(data, fails) ==
    LET id == ValueString(data.id)
        n == MatchNodes(vertices, id)
    IN  IF fails THEN {[diag |-> "backend", data |-> data, queries |-> 1, hit |-> {}]}
        ELSE IF n = {} THEN {[diag |-> "none", data |-> data, queries |-> 1, hit |-> {}]}
        ELSE {[diag |-> "none",
               data |-> NodeResourceModel(
                   data.id,
                   readLabels(data.labels, o),
                   DecodeProperties(vertices[v].props, data.properties)),
               queries |-> 1,
               hit |-> {v}] : <<v, o>> \in UNION {{v} \X Orders(vertices[v].labels) : v \in n}}

\* A read that runs the query a second time when the first returns an error.
readRetry(data, fails) ==
    LET id == ValueString(data.id)
        n == MatchNodes(vertices, id)
    IN  IF fails THEN {[diag |-> "backend", data |-> data, queries |-> 2, hit |-> {}]}
        ELSE IF n = {} THEN {[diag |-> "notfound", data |-> data, queries |-> 1, hit |-> {}]}
        ELSE {[diag |-> "none",
               data |-> NodeResourceModel(
                   data.id,
                   readLabels(data.labels, o),
                   DecodeProperties(vertices[v].props, data.properties)),
               queries |-> 1,
               hit |-> {v}] : <<v, o>> \in UNION {{v} \X Orders(vertices[v].labels) : v \in n}}

\* read: the first record of MATCH (n{uuid:$uuid}) RETURN n, whichever vertex
\* and whichever label order the backend returns first.
read(data, fails) ==
    LET id == ValueString(data.id)
        n == MatchNodes(vertices, id)
    IN  IF fails THEN {[diag |-> "backend", data |-> data, queries |-> 1, hit |-> {}]}
        ELSE IF n = {} THEN {[diag |-> "notfound", data |-> data, queries |-> 1, hit |-> {}]}
        ELSE {[diag |-> "none",
               data |-> NodeResourceModel(
                   data.id,
                   readLabels(data.labels, o),
                   DecodeProperties(vertices[v].props, data.properties)),
               queries |-> 1,
               hit |-> {v}] : <<v, o>> \in UNION {{v} \X Orders(vertices[v].labels) : v \in n}}

NodeCreate(r, labels, properties, fails) ==
    /\ ~nodeState[r].exists
    /\ nextUUID <= MaxUUID
    /\ LET id == UUID(nextUUID)
           l == ReadLabels(labels)
           p == readProperties(properties)
           q == NodeCreateQuery(vertices, id, l, p)
       IN  IF l.err \/ p.err
           THEN /\ last' = Call("NodeCreate", r, id, "validation", 0, FALSE, {})
                /\ UNCHANGED <<vertices, nodeState, nextUUID>>
           ELSE IF fails
           THEN /\ last' = Call("NodeCreate", r, id, "backend", 1, FALSE, {})
                /\ UNCHANGED <<vertices, nodeState, nextUUID>>
           ELSE /\ Cardinality(DOMAIN q.vs) <= MaxVertices
                /\ vertices' = q.vs
                /\ nextUUID' = nextUUID + 1
                /\ nodeState' = [nodeState EXCEPT ![r] =
                                    State(NodeResourceModel(TfValue(id), labels, properties))]
                /\ last' = Call("NodeCreate", r, id, "none", 1, TRUE, q.n)
    /\ UNCHANGED <<edges, relState, codec, provider, inflight>>

NodeRead(r, fails) ==
    /\ nodeState[r].exists
    /\ \E out \in read(nodeState[r].data, fails) :
         /\ last' = Call("NodeRead", r,
                         ValueString(nodeState[r].data.id), out.diag, out.queries,
                         out.diag = "none", out.hit)
         /\ nodeState' = IF out.diag = "none"
                         THEN [nodeState EXCEPT ![r] = State(out.data)]
                         ELSE nodeState
    /\ UNCHANGED <<vertices, edges, relState, nextUUID, codec, provider, inflight>>

\* The plan of an Update keeps the id of the state (UseStateForUnknown).
NodeUpdate(r, labels, properties, fails) ==
    /\ nodeState[r].exists
    /\ PlansUpdate(NodeRequiresReplace, nodeState[r].data,
                   NodeResourceModel(nodeState[r].data.id, labels, properties))
    /\ LET prior == nodeState[r].data
           plan == NodeResourceModel(prior.id, labels, properties)
           id == ValueString(plan.id)
           l == ReadLabels(labels)
           p == readProperties(properties)
           q == NodeUpdateQuery(vertices, id, l, p)
       IN  IF l.err \/ p.err
           THEN /\ last' = Call("NodeUpdate", r, id, "validation", 0, FALSE, {})
                /\ UNCHANGED <<vertices, nodeState>>
           ELSE IF fails
           THEN /\ last' = Call("NodeUpdate", r, id, "backend", 1, FALSE, {})
                /\ UNCHANGED <<vertices, nodeState>>
           ELSE /\ vertices' = q.vs
                /\ nodeState' = [nodeState EXCEPT ![r] = State(plan)]
                /\ last' = Call("NodeUpdate", r, id, "none", 1, TRUE, q.n)
    /\ UNCHANGED <<edges, relState, nextUUID, codec, provider, inflight>>

\* A Delete that clears the state whatever client.Run returns.
NodeDeleteAlwaysClears(r, fails) ==
    /\ nodeState[r].exists
    /\ LET prior == nodeState[r].data
           id == ValueString(prior.id)
           q == NodeDeleteQuery(vertices, edges, id)
       IN  /\ vertices' = IF fails THEN vertices ELSE q.vs
           /\ edges' = IF fails THEN edges ELSE q.es
           /\ nodeState' = [nodeState EXCEPT ![r] =
                               NoState(NodeResourceModel(TfNull, ListNull, MapNull))]
           /\ last' = Call("NodeDelete", r, id, IF fails THEN "backend" ELSE "none", 1,
                           ~fails, IF fails THEN {} ELSE q.n)
    /\ UNCHANGED <<relState, nextUUID, codec, provider, inflight>>

\* After a Delete without error the framework drops the resource from the state.
NodeDelete(r, fails) ==
    /\ nodeState[r].exists
    /\ LET prior == nodeState[r].data
           id == ValueString(prior.id)
           q == NodeDeleteQuery(vertices, edges, id)
       IN  IF fails
           THEN /\ last' = Call("NodeDelete", r, id, "backend", 1, FALSE, {})
                /\ UNCHANGED <<vertices, edges, nodeState>>
           ELSE /\ vertices' = q.vs
                /\ edges' = q.es
                /\ nodeState' = [nodeState EXCEPT ![r] =
                                    NoState(NodeResourceModel(TfNull, ListNull, MapNull))]
                /\ last' = Call("NodeDelete", r, id, "none", 1, TRUE, q.n)
    /\ UNCHANGED <<relState, nextUUID, codec, provider, inflight>>

\* An ImportState that starts from empty labels and properties, not null ones.
NodeImportStateEmpty(r, id, fails) ==
    /\ \E out \in read(NodeResourceModel(TfValue(id), ListValue(<<>>), MapValue(<<>>)), fails) :
         /\ last' = Call("NodeImportState", r, id, out.diag,
                         out.queries, out.diag = "none", out.hit)
         /\ nodeState' = IF out.diag = "none"
                         THEN [nodeState EXCEPT ![r] = State(out.data)]
                         ELSE nodeState
    /\ UNCHANGED <<vertices, edges, relState, nextUUID, codec, provider, inflight>>

\* terraform import takes an address the state has no resource at; terraform
\* state rm, which calls no handler, frees the address of a resource.
NodeImportState(r, id, fails) ==
    /\ \E out \in read(NodeResourceModel(TfValue(id), ListNull, MapNull), fails) :
         /\ last' = Call("NodeImportState", r, id, out.diag,
                         out.queries, out.diag = "none", out.hit)
         /\ nodeState' = IF out.diag = "none"
                         THEN [nodeState EXCEPT ![r] = State(out.data)]
                         ELSE nodeState
    /\ UNCHANGED <<vertices, edges, relState, nextUUID, codec, provider, inflight>>

----------------------------------------------------------------------------
\* RelationshipResource.

RelationshipCreateStrict(r, type, start, end, properties, fails) ==
    /\ ~relState[r].exists
    /\ nextUUID <= MaxUUID
    /\ LET id == UUID(nextUUID)
           p == readProperties(properties)
           q == RelationshipCreateQuery(vertices, edges, id, start, end, type, p)
       IN  IF p.err
           THEN /\ last' = Call("RelationshipCreate", r, id, "validation", 0, FALSE, {})
                /\ UNCHANGED <<edges, relState, nextUUID>>
           ELSE IF fails \/ EndpointRows(vertices, start, end) = {}
           THEN /\ last' = Call("RelationshipCreate", r, id, "backend", 1, FALSE, {})
                /\ UNCHANGED <<edges, relState, nextUUID>>
           ELSE /\ Cardinality(DOMAIN q.es) <= MaxEdges
                /\ edges' = q.es
                /\ nextUUID' = nextUUID + 1
                /\ relState' = [relState EXCEPT ![r] =
                      State(RelationshipResourceModel(TfValue(id), TfValue(type),
                            TfValue(start), TfValue(end), properties))]
                /\ last' = Call("RelationshipCreate", r, id, "none", 1, TRUE, q.r)
    /\ UNCHANGED <<vertices, nodeState, codec, provider, inflight>>

RelationshipCreate(r, type, start, end, properties, fails) ==
    /\ ~relState[r].exists
    /\ nextUUID <= MaxUUID
    /\ LET id == UUID(nextUUID)
           p == readProperties(properties)
           q == RelationshipCreateQuery(vertices, edges, id, start, end, type, p)
       IN  IF p.err
           THEN /\ last' = Call("RelationshipCreate", r, id, "validation", 0, FALSE, {})
                /\ UNCHANGED <<edges, relState, nextUUID>>
           ELSE IF fails
           THEN /\ last' = Call("RelationshipCreate", r, id, "backend", 1, FALSE, {})
                /\ UNCHANGED <<edges, relState, nextUUID>>
           ELSE /\ Cardinality(DOMAIN q.es) <= MaxEdges
                /\ edges' = q.es
                /\ nextUUID' = nextUUID + 1
                /\ relState' = [relState EXCEPT ![r] =
                      State(RelationshipResourceModel(TfValue(id), TfValue(type),
                            TfValue(start), TfValue(end), properties))]
                /\ last' = Call("RelationshipCreate", r, id, "none", 1, TRUE, q.r)
    /\ UNCHANGED <<vertices, nodeState, codec, provider, inflight>>

RelationshipRead(r, fails) ==
    /\ relState[r].exists
    /\ LET data == relState[r].data
           id == ValueString(data.id)
           m == MatchDirected(vertices, edges, id, ValueString(data.start_node_id),
                              ValueString(data.end_node_id))
       IN  IF fails
           THEN /\ last' = Call("RelationshipRead", r, id, "backend", 1, FALSE, {})
                /\ UNCHANGED relState
           ELSE IF m = {}
           THEN /\ last' = Call("RelationshipRead", r, id, "notfound", 1, FALSE, {})
                /\ UNCHANGED relState
           ELSE \E x \in m :
                /\ relState' = [relState EXCEPT ![r] =
                      State(RelationshipResourceModel(data.id, TfValue(edges[x].type),
                            data.start_node_id, data.end_node_id,
                            DecodeProperties(edges[x].props, data.properties)))]
                /\ last' = Call("RelationshipRead", r, id, "none", 1, TRUE, {x})
    /\ UNCHANGED <<vertices, edges, nodeState, nextUUID, codec, provider, inflight>>

\* The plan of an Update keeps the id of the state (UseStateForUnknown).
RelationshipUpdate(r, type, start, end, properties, fails) ==
    /\ relState[r].exists
    /\ LET prior == relState[r].data
           plan == RelationshipResourceModel(prior.id, TfValue(type), TfValue(start),
                                             TfValue(end), properties)
           id == ValueString(plan.id)
           p == readProperties(properties)
           q == RelationshipUpdateQuery(vertices, edges, id, start, end, type, p)
       IN  /\ PlansUpdate(RelationshipRequiresReplace, prior, plan)
           /\ IF p.err
              THEN /\ last' = Call("RelationshipUpdate", r, id, "validation", 0, FALSE, {})
                   /\ UNCHANGED <<edges, relState>>
              ELSE IF fails
              THEN /\ last' = Call("RelationshipUpdate", r, id, "backend", 1, FALSE, {})
                   /\ UNCHANGED <<edges, relState>>
              ELSE /\ edges' = q.es
                   /\ relState' = [relState EXCEPT ![r] = State(plan)]
                   /\ last' = Call("RelationshipUpdate", r, id, "none", 1, TRUE, q.r)
    /\ UNCHANGED <<vertices, nodeState, nextUUID, codec, provider, inflight>>

RelationshipDeleteDetach(r, fails) ==
    /\ relState[r].exists
    /\ LET prior == relState[r].data
           id == ValueString(prior.id)
           q == NodeDeleteQuery(vertices, edges, ValueString(prior.start_node_id))
       IN  IF fails
           THEN /\ last' = Call("RelationshipDelete", r, id, "backend", 1, FALSE, {})
                /\ UNCHANGED <<vertices, edges, relState>>
           ELSE /\ vertices' = q.vs
                /\ edges' = q.es
                /\ relState' = [relState EXCEPT ![r] =
                      NoState(RelationshipResourceModel(TfNull, TfNull, TfNull, TfNull, MapNull))]
                /\ last' = Call("RelationshipDelete", r, id, "none", 1, TRUE, {})
    /\ UNCHANGED <<nodeState, nextUUID, codec, provider, inflight>>

\* A Delete that sets the id to null and leaves the other attributes.
RelationshipDeleteKeepsAttributes(r, fails) ==
    /\ relState[r].exists
    /\ LET prior == relState[r].data
           id == ValueString(prior.id)
           q == RelationshipDeleteQuery(vertices, edges, id,
                    ValueString(prior.start_node_id), ValueString(prior.end_node_id),
                    ValueString(prior.type))
       IN  IF fails
           THEN /\ last' = Call("RelationshipDelete", r, id, "backend", 1, FALSE, {})
                /\ UNCHANGED <<edges, relState>>
           ELSE /\ edges' = q.es
                /\ relState' = [relState EXCEPT ![r] = NoState([prior EXCEPT !.id = TfNull])]
                /\ last' = Call("RelationshipDelete", r, id, "none", 1, TRUE, q.r)
    /\ UNCHANGED <<vertices, nodeState, nextUUID, codec, provider, inflight>>

\* After a Delete without error the framework drops the resource from the state.
RelationshipDelete(r, fails) ==
    /\ relState[r].exists
    /\ LET prior == relState[r].data
           id == ValueString(prior.id)
           q == RelationshipDeleteQuery(vertices, edges, id,
                    ValueString(prior.start_node_id), ValueString(prior.end_node_id),
                    ValueString(prior.type))
       IN  IF fails
           THEN /\ last' = Call("RelationshipDelete", r, id, "backend", 1, FALSE, {})
                /\ UNCHANGED <<edges, relState>>
           ELSE /\ edges' = q.es
                /\ relState' = [relState EXCEPT ![r] =
                      NoState(RelationshipResourceModel(TfNull, TfNull, TfNull, TfNull, MapNull))]
                /\ last' = Call("RelationshipDelete", r, id, "none", 1, TRUE, q.r)
    /\ UNCHANGED <<vertices, nodeState, nextUUID, codec, provider, inflight>>

\* m["start_node_id"].(string) panics when the value is no string.
RelationshipImportState(r, id, fails) ==
    /\ LET recs == RelationshipImportQuery(vertices, edges, id)
       IN  IF fails
           THEN /\ last' = Call("RelationshipImportState", r, id, "backend", 1, FALSE, {})
                /\ UNCHANGED relState
           ELSE IF recs = {}
           THEN /\ last' = Call("RelationshipImportState", r, id, "notfound", 1, FALSE, {})
                /\ UNCHANGED relState
           ELSE \E m \in recs :
                IF m.start_node_id.t # "string" \/ m.end_node_id.t # "string"
                THEN /\ last' = Call("RelationshipImportState", r, id, "panic", 1, FALSE, {m.r})
                     /\ UNCHANGED relState
                ELSE /\ relState' = [relState EXCEPT ![r] =
                           State(RelationshipResourceModel(TfValue(id),
                                 TfValue(edges[m.r].type),
                                 TfValue(m.start_node_id.s), TfValue(m.end_node_id.s),
                                 DecodeProperties(edges[m.r].props, MapNull)))]
                     /\ last' = Call("RelationshipImportState", r, id, "none", 1, TRUE, {m.r})
    /\ UNCHANGED <<vertices, edges, nodeState, nextUUID, codec, provider, inflight>>

----------------------------------------------------------------------------
\* The configurations the resources are declared with.

Generated == {UUID(i) : i \in 1..(nextUUID - 1)}

\* Resources are numbered in the order they enter the state: a Create takes
\* the lowest address the state has no resource at, an ImportState that one or
\* an address freed for it.
NewNode == {r \in NodeRes : ~nodeState[r].exists /\ \A q \in 1..(r - 1) : nodeState[q].exists}
NewRel == {r \in RelRes : ~relState[r].exists /\ \A q \in 1..(r - 1) : relState[q].exists}
ImportRel == NewRel \cup {r \in RelRes : relState[r].exists}

LabelInputs ==
    {ListNull, ListValue(<<>>), ListValue(<<TfValue("foo")>>),
     ListValue(<<TfValue("bar"), TfValue("foo"), TfValue("bar")>>),
     ListValue(<<TfNull>>)}

PropStrings == {<<"1", "0", "0">>}

Maps(K, V) == UNION {[D -> V] : D \in SUBSET K}

PropInputs ==
    {MapNull}
    \cup {MapValue(m) : m \in Maps({"foo"}, {TfValue(s) : s \in PropStrings} \cup {TfNull})}
    \cup {MapValue(m) : m \in [{"uuid"} -> {TfValue(s) : s \in Generated}]}

\* The provider before Configure is called.
Fields == {"db_uri", "db_user", "db_password", "db_name"}
EnvNames == {"DB_URI", "DB_USER", "DB_PASSWORD", "DB_NAME"}

ErrNil == [kind |-> "nil", check |-> 0]
SessNil == [nil |-> TRUE, DatabaseName |-> <<>>]

\* No handler is running: an Update and a Delete not yet called.
Idle == [pc |-> "idle", res |-> 0, data |-> NodeNull, diag |-> "none"]
NoInflight == [Update |-> Idle, Delete |-> Idle, order |-> <<>>]

NoRequest == [TypeName |-> "none", resource |-> "none", diag |-> "none"]

NoProvider ==
    [pc |-> "off",
     config |-> [f \in Fields |-> TfNull],
     env |-> [e \in EnvNames |-> <<>>],
     data |-> [f \in Fields |-> TfNull],
     getenv |-> {},
     attempt |-> 0,
     results |-> <<>>,
     err |-> ErrNil,
     sess |-> SessNil,
     diag |-> "none",
     ResourceData |-> SessNil,
     request |-> NoRequest]

NoCodec == [pc |-> "off", in |-> MapNull, stored |-> <<>>, out |-> MapNull]

Init ==
    /\ vertices = <<>>
    /\ edges = <<>>
    /\ nodeState = [r \in NodeRes |-> NoState(NodeNull)]
    /\ relState = [r \in RelRes \cup PairRes |-> NoState(RelationshipNull)]
    /\ nextUUID = 1
    /\ last = Call("none", 0, <<>>, "none", 0, FALSE, {})
    /\ codec = NoCodec
    /\ provider = NoProvider
    /\ inflight = NoInflight

Types == {"foo", "bar"}

LeanPropInputs ==
    {MapNull, MapValue([k \in {"foo"} |-> TfValue(<<"1", "0", "0">>)]),
     MapValue([k \in {"uuid"} |-> TfValue(<<"7">>)])}

\* The graph: nodes without labels, relationships between them.
Next ==
    \/ \E r \in NewNode, f \in BOOLEAN : NodeCreate(r, ListNull, MapNull, f)
    \/ \E r \in NodeRes, f \in BOOLEAN : NodeDelete(r, f)
    \/ \E r \in NewRel, t \in Types, a, b \in Generated, p \in LeanPropInputs, f \in BOOLEAN :
          RelationshipCreate(r, t, a, b, p, f)
    \/ \E r \in RelRes, f \in BOOLEAN : RelationshipRead(r, f)
    \/ \E r \in RelRes, t \in Types, a, b \in Generated, p \in LeanPropInputs, f \in BOOLEAN :
          RelationshipUpdate(r, t, a, b, p, f)
    \/ \E r \in RelRes, f \in BOOLEAN : RelationshipDelete(r, f)
    \/ \E r \in ImportRel, id \in Generated, f \in BOOLEAN : RelationshipImportState(r, id, f)

Spec == Init /\ [][Next]_vars

\* The example configuration: one node and two relationships from the node to
\* itself.
NewPair == {r \in PairRes : ~relState[r].exists /\ \A q \in 1..(r - 1) : relState[q].exists}
PairPropInputs ==
    {MapNull, MapValue(<<>>), MapValue([k \in {"foo"} |-> TfValue(<<"1", "0", "0">>)])}

NextPair ==
    \/ \E f \in BOOLEAN : NodeCreate(1, ListNull, MapNull, f)
    \/ \E r \in NewPair, a, b \in Generated, p \in PairPropInputs, f \in BOOLEAN :
          RelationshipCreate(r, "foo", a, b, p, f)
    \/ \E r \in PairRes, f \in BOOLEAN : RelationshipRead(r, f)
    \/ \E r \in PairRes, a, b \in Generated, p \in PairPropInputs, f \in BOOLEAN :
          RelationshipUpdate(r, "foo", a, b, p, f)
    \/ \E r \in PairRes, f \in BOOLEAN : RelationshipDelete(r, f)
    \/ \E r \in NewPair \cup {q \in PairRes : relState[q].exists}, id \in Generated, f \in BOOLEAN :
          RelationshipImportState(r, id, f)

SpecPair == Init /\ [][NextPair]_vars

\* One neo4j_node resource, declared with every labels and properties input.
NextNode ==
    \/ \E l \in LabelInputs, p \in PropInputs, f \in BOOLEAN : NodeCreate(1, l, p, f)
    \/ \E f \in BOOLEAN : NodeRead(1, f)
    \/ \E l \in LabelInputs, p \in PropInputs, f \in BOOLEAN : NodeUpdate(1, l, p, f)
    \/ \E f \in BOOLEAN : NodeDelete(1, f)
    \/ \E id \in Generated, f \in BOOLEAN : NodeImportState(1, id, f)

SpecNode == Init /\ [][NextNode]_vars

\* One neo4j_node and one neo4j_relationship resource, the relationship between
\* any two ids a Create has generated, with valid and invalid inputs.
LifeLabelInputs ==
    {ListNull, ListValue(<<TfValue("foo")>>), ListValue(<<TfNull>>), ListValue(<<TfUnknown>>)}

LifePropInputs ==
    {MapNull, MapValue(<<>>)}
    \cup {MapValue([k \in {"foo"} |-> v]) : v \in {TfValue(<<"1", "0", "0">>), TfNull, TfUnknown}}

\* An Update may also declare the reserved key, which readProperties lets through.
LifeUpdateInputs == LifePropInputs \cup {MapValue([k \in {"uuid"} |-> TfValue(<<"7">>)])}

NextLife ==
    \/ \E l \in LifeLabelInputs, p \in LifePropInputs, f \in BOOLEAN : NodeCreate(1, l, p, f)
    \/ \E f \in BOOLEAN : NodeRead(1, f)
    \/ \E l \in LifeLabelInputs, p \in LifeUpdateInputs, f \in BOOLEAN : NodeUpdate(1, l, p, f)
    \/ \E f \in BOOLEAN : NodeDelete(1, f)
    \/ \E id \in Generated, f \in BOOLEAN : NodeImportState(1, id, f)
    \/ \E a, b \in Generated, p \in LifePropInputs, f \in BOOLEAN :
          RelationshipCreate(1, "foo", a, b, p, f)
    \/ \E f \in BOOLEAN : RelationshipRead(1, f)
    \/ \E a, b \in Generated, p \in LifeUpdateInputs, f \in BOOLEAN :
          RelationshipUpdate(1, "foo", a, b, p, f)
    \/ \E f \in BOOLEAN : RelationshipDelete(1, f)
    \/ \E id \in Generated, f \in BOOLEAN : RelationshipImportState(1, id, f)

SpecLife == Init /\ [][NextLife]_vars

----------------------------------------------------------------------------
\* The property codec on its own: a declared map is encoded by readProperties,
\* stored on a new vertex by the Create query, and decoded by read.

RECURSIVE Strings(_)
Strings(n) ==
    IF n = 0 THEN {<<>>}
    ELSE Strings(n - 1) \cup {Append(s, c) : s \in {t \in Strings(n - 1) : Len(t) = n - 1}, c \in Chars}

CodecInputs ==
    {MapNull}
    \cup {MapValue(m) : m \in
            {SetProps(a, SetProps(b, c)) :
                a \in Maps({"foo"}, {TfValue(s) : s \in Strings(MaxStrLen)} \cup {TfNull}),
                b \in Maps({"bar"}, {TfValue(s) : s \in PropStrings}),
                c \in Maps({"uuid"}, {TfValue(<<"7">>)})}}

InitCodec ==
    /\ vertices = <<>>
    /\ edges = <<>>
    /\ nodeState = [r \in NodeRes |-> NoState(NodeNull)]
    /\ relState = [r \in RelRes \cup PairRes |-> NoState(RelationshipNull)]
    /\ nextUUID = 1
    /\ last = Call("none", 0, <<>>, "none", 0, FALSE, {})
    /\ \E in \in CodecInputs : codec = [pc |-> "declared", in |-> in, stored |-> <<>>, out |-> MapNull]
    /\ provider = NoProvider
    /\ inflight = NoInflight

CodecEncode ==
    /\ codec.pc = "declared"
    /\ LET p == readProperties(codec.in)
           q == NodeCreateQuery(<<>>, UUID(1), ReadLabels(ListNull), p)
       IN  codec' = IF p.err THEN [codec EXCEPT !.pc = "rejected"]
                    ELSE [codec EXCEPT !.pc = "stored",
                                       !.stored = q.vs[CHOOSE v \in q.n : TRUE].props]
    /\ UNCHANGED <<vertices, edges, nodeState, relState, nextUUID, last, provider, inflight>>

CodecDecode ==
    /\ codec.pc = "stored"
    /\ codec' = [codec EXCEPT !.pc = "read",
                              !.out = DecodeProperties(codec.stored, codec.in)]
    /\ UNCHANGED <<vertices, edges, nodeState, relState, nextUUID, last, provider, inflight>>

NextCodec == CodecEncode \/ CodecDecode

SpecCodec == InitCodec /\ [][NextCodec]_vars

----------------------------------------------------------------------------
\* One node and one relationship from the node to itself, declared with
\* property strings of every kind the conversion of readProperties tells apart.

StoreStrings ==
    {<<"1", "0", "0">>, <<"q", "u", "x">>, <<"1", ".", "2">>,
     <<"-", "7">>, <<"+", "7">>, <<"0", "7">>, <<".", "7">>, <<"7", ".">>,
     <<"1", ".", "2", "0">>, <<"7", "q">>, <<"-">>, <<".">>, <<>>,
     \* 1<<63, -(1<<63) - 1, 10^19: integers that no int64 holds.
     MinInt64, <<"-">> \o MinInt64From9, TenTo19,
     \* 7 written with 20 digits.
     LongSeven}

StoreInputs ==
    {MapNull,
     MapValue([k \in {"foo", "bar", "quux"} |->
                 CASE k = "foo" -> TfValue(<<"1", "0", "0">>)
                   [] k = "bar" -> TfValue(<<"q", "u", "x">>)
                   [] k = "quux" -> TfValue(<<"1", ".", "2">>)])}
    \cup {MapValue([k \in {"foo"} |-> TfValue(s)]) : s \in StoreStrings}

NextStore ==
    \/ \E p \in StoreInputs, f \in BOOLEAN : NodeCreate(1, ListNull, p, f)
    \/ \E p \in StoreInputs, f \in BOOLEAN : NodeUpdate(1, ListNull, p, f)
    \/ \E f \in BOOLEAN : NodeDelete(1, f)
    \/ \E a \in Generated, p \in StoreInputs, f \in BOOLEAN :
          RelationshipCreate(1, "foo", a, a, p, f)
    \/ \E a \in Generated, p \in StoreInputs, f \in BOOLEAN :
          RelationshipUpdate(1, "foo", a, a, p, f)
    \/ \E f \in BOOLEAN : RelationshipDelete(1, f)

SpecStore == Init /\ [][NextStore]_vars

----------------------------------------------------------------------------
\* Two nodes and one relationship between them.

\* A node is declared bare, or with a label and a property.
FrameConfigs ==
    {[labels |-> ListNull, properties |-> MapNull],
     [labels |-> ListValue(<<TfValue("foo")>>),
      properties |-> MapValue([k \in {"foo"} |-> TfValue(<<"1", "0", "0">>)])]}

NextFrame ==
    \/ \E r \in NewNode, f \in BOOLEAN : NodeCreate(r, ListNull, MapNull, f)
    \/ \E r \in NodeRes, f \in BOOLEAN : NodeRead(r, f)
    \/ \E r \in NodeRes, c \in FrameConfigs, f \in BOOLEAN :
          NodeUpdate(r, c.labels, c.properties, f)
    \/ \E r \in NodeRes : NodeDelete(r, FALSE)
    \/ \E r \in NewNode, id \in Generated, f \in BOOLEAN : NodeImportState(r, id, f)
    \/ \E a, b \in Generated : RelationshipCreate(1, "foo", a, b, MapNull, FALSE)
    \/ \E a, b \in Generated, c \in FrameConfigs :
          RelationshipUpdate(1, "foo", a, b, c.properties, FALSE)
    \/ RelationshipDelete(1, FALSE)

SpecFrame == Init /\ [][NextFrame]_vars

----------------------------------------------------------------------------
\* NodeResource.Update and NodeResource.Delete of one node called at the same
\* time.  Each handler is three steps: the call, up to client.Run; the query,
\* which the backend runs as one transaction; and the return, with
\* resp.State.Set.  The steps of the two handlers interleave in any order.

RaceInputs ==
    FrameConfigs \cup {[labels |-> ListValue(<<TfNull>>), properties |-> MapNull]}

UpdateCall(r, labels, properties) ==
    /\ inflight.Update.pc = "idle"
    /\ nodeState[r].exists
    /\ LET plan == NodeResourceModel(nodeState[r].data.id, labels, properties)
           l == ReadLabels(labels)
           p == readProperties(properties)
       IN  inflight' = [inflight EXCEPT !.Update =
                 IF l.err \/ p.err
                 THEN [pc |-> "done", res |-> r, data |-> plan, diag |-> "validation"]
                 ELSE [pc |-> "query", res |-> r, data |-> plan, diag |-> "none"]]
    /\ UNCHANGED <<vertices, edges, nodeState, relState, nextUUID, last, codec, provider>>

\* An Update whose query is a MERGE.
UpdateRunMerge(fails) ==
    /\ inflight.Update.pc = "query"
    /\ LET data == inflight.Update.data
           q == NodeUpdateQueryUpsert(vertices, ValueString(data.id),
                                      ReadLabels(data.labels), readProperties(data.properties))
       IN  /\ vertices' = IF fails THEN vertices ELSE q.vs
           /\ inflight' = [inflight EXCEPT
                 !.Update.pc = "answered",
                 !.Update.diag = IF fails THEN "backend" ELSE "none",
                 !.order = Append(inflight.order, "Update")]
    /\ UNCHANGED <<edges, nodeState, relState, nextUUID, last, codec, provider>>

UpdateRun(fails) ==
    /\ inflight.Update.pc = "query"
    /\ LET data == inflight.Update.data
           q == NodeUpdateQuery(vertices, ValueString(data.id),
                                ReadLabels(data.labels), readProperties(data.properties))
       IN  /\ vertices' = IF fails THEN vertices ELSE q.vs
           /\ inflight' = [inflight EXCEPT
                 !.Update.pc = "answered",
                 !.Update.diag = IF fails THEN "backend" ELSE "none",
                 !.order = Append(inflight.order, "Update")]
    /\ UNCHANGED <<edges, nodeState, relState, nextUUID, last, codec, provider>>

UpdateReturn ==
    /\ inflight.Update.pc = "answered"
    /\ LET u == inflight.Update
       IN  /\ nodeState' = IF u.diag = "none"
                           THEN [nodeState EXCEPT ![u.res] = State(u.data)]
                           ELSE nodeState
           /\ last' = Call("NodeUpdate", u.res, ValueString(u.data.id), u.diag, 1,
                           u.diag = "none", {})
    /\ inflight' = [inflight EXCEPT !.Update.pc = "done"]
    /\ UNCHANGED <<vertices, edges, relState, nextUUID, codec, provider>>

DeleteCall(r) ==
    /\ inflight.Delete.pc = "idle"
    /\ nodeState[r].exists
    /\ inflight' = [inflight EXCEPT !.Delete =
          [pc |-> "query", res |-> r, data |-> nodeState[r].data, diag |-> "none"]]
    /\ UNCHANGED <<vertices, edges, nodeState, relState, nextUUID, last, codec, provider>>

DeleteRun(fails) ==
    /\ inflight.Delete.pc = "query"
    /\ LET q == NodeDeleteQuery(vertices, edges, ValueString(inflight.Delete.data.id))
       IN  /\ vertices' = IF fails THEN vertices ELSE q.vs
           /\ edges' = IF fails THEN edges ELSE q.es
           /\ inflight' = [inflight EXCEPT
                 !.Delete.pc = "answered",
                 !.Delete.diag = IF fails THEN "backend" ELSE "none",
                 !.order = Append(inflight.order, "Delete")]
    /\ UNCHANGED <<nodeState, relState, nextUUID, last, codec, provider>>

DeleteReturn ==
    /\ inflight.Delete.pc = "answered"
    /\ LET d == inflight.Delete
       IN  /\ nodeState' = IF d.diag = "none"
                           THEN [nodeState EXCEPT ![d.res] =
                                    NoState(NodeResourceModel(TfNull, ListNull, MapNull))]
                           ELSE nodeState
           /\ last' = Call("NodeDelete", d.res, ValueString(d.data.id), d.diag, 1,
                           d.diag = "none", {})
    /\ inflight' = [inflight EXCEPT !.Delete.pc = "done"]
    /\ UNCHANGED <<vertices, edges, relState, nextUUID, codec, provider>>

NextRace ==
    \/ \E c \in FrameConfigs, f \in BOOLEAN : NodeCreate(1, c.labels, c.properties, f)
    \/ \E a \in Generated, f \in BOOLEAN : RelationshipCreate(1, "foo", a, a, MapNull, f)
    \/ \E c \in RaceInputs : UpdateCall(1, c.labels, c.properties)
    \/ \E f \in BOOLEAN : UpdateRun(f)
    \/ UpdateReturn
    \/ DeleteCall(1)
    \/ \E f \in BOOLEAN : DeleteRun(f)
    \/ DeleteReturn

SpecRace == Init /\ [][NextRace]_vars

----------------------------------------------------------------------------
\* Provider.Configure, NewClient and tryConnection.

EnvOf(f) ==
    CASE f = "db_uri" -> "DB_URI"
      [] f = "db_user" -> "DB_USER"
      [] f = "db_password" -> "DB_PASSWORD"
      [] f = "db_name" -> "DB_NAME"

DefaultName == <<"n", "e", "o", "4", "j">>

\* cmp.Or: the first argument that is not the empty string.
cmpOr(a, b) == IF a # <<>> THEN a ELSE b

\* A Configure that lets the environment variable win over the configuration.
ResolveEnvFirst(config, env, f) ==
    IF env[EnvOf(f)] # <<>>
    THEN TfValue(env[EnvOf(f)])
    ELSE IF ValueString(config[f]) = <<>>
         THEN TfValue(IF f = "db_name" THEN DefaultName ELSE <<>>)
         ELSE config[f]

\* Configure, one field: os.Getenv is called when ValueString() is "", which
\* it is for a null, an unknown and an empty value.
Resolve(config, env, f) ==
    IF ValueString(config[f]) = <<>>
    THEN TfValue(IF f = "db_name" THEN cmpOr(env[EnvOf(f)], DefaultName) ELSE env[EnvOf(f)])
    ELSE config[f]

ErrDriver == [kind |-> "driver", check |-> 0]
ErrConnect(n) == [kind |-> "connectivity", check |-> n]

\* The third argument of tryConnection in NewClient.
maxAttempts == 3

ConfigValues == {TfNull, TfUnknown, TfValue(<<>>), TfValue(<<"c">>)}
EnvValues == {<<>>, <<"e">>}

\* The provider block and the environment Configure is called with.
InitProvider ==
    /\ vertices = <<>>
    /\ edges = <<>>
    /\ nodeState = [r \in NodeRes |-> NoState(NodeNull)]
    /\ relState = [r \in RelRes \cup PairRes |-> NoState(RelationshipNull)]
    /\ nextUUID = 1
    /\ last = Call("none", 0, <<>>, "none", 0, FALSE, {})
    /\ codec = NoCodec
    /\ inflight = NoInflight
    /\ \E config \in [Fields -> ConfigValues], env \in [EnvNames -> EnvValues] :
          provider = [NoProvider EXCEPT !.pc = "Configure", !.config = config, !.env = env]

\* Configure up to the call of NewClient.
ProviderConfigure ==
    /\ provider.pc = "Configure"
    /\ provider' = [provider EXCEPT
          !.pc = "NewDriverWithContext",
          !.data = [f \in Fields |-> Resolve(provider.config, provider.env, f)],
          !.getenv = {EnvOf(f) : f \in {g \in Fields : ValueString(provider.config[g]) = <<>>}}]
    /\ UNCHANGED <<vertices, edges, nodeState, relState, nextUUID, last, codec, inflight>>

\* NewClient: neo4j.NewDriverWithContext returns a driver or an error.
NewDriverWithContext(ok) ==
    /\ provider.pc = "NewDriverWithContext"
    /\ provider' = IF ok
                   THEN [provider EXCEPT !.pc = "tryConnection", !.attempt = 0, !.err = ErrNil]
                   ELSE [provider EXCEPT !.pc = "return", !.err = ErrDriver]
    /\ UNCHANGED <<vertices, edges, nodeState, relState, nextUUID, last, codec, inflight>>

\* A tryConnection that goes on checking after a check has succeeded.
VerifyConnectivityNoBreak(ok) ==
    /\ provider.pc = "tryConnection"
    /\ provider.attempt < maxAttempts
    /\ LET n == Len(provider.results) + 1
       IN  provider' = [provider EXCEPT
                 !.results = Append(provider.results, ok),
                 !.err = IF ok THEN ErrNil ELSE ErrConnect(n),
                 !.attempt = provider.attempt + 1,
                 !.pc = IF provider.attempt + 1 < maxAttempts
                        THEN "tryConnection" ELSE "return"]
    /\ UNCHANGED <<vertices, edges, nodeState, relState, nextUUID, last, codec, inflight>>

\* tryConnection, one turn of the loop: driver.VerifyConnectivity, then break
\* on success, or Sleep, attempt++ and the loop condition.
VerifyConnectivity(ok) ==
    /\ provider.pc = "tryConnection"
    /\ provider.attempt < maxAttempts
    /\ LET n == Len(provider.results) + 1
       IN  provider' =
             IF ok
             THEN [provider EXCEPT !.results = Append(provider.results, TRUE),
                                   !.err = ErrNil,
                                   !.pc = "return"]
             ELSE [provider EXCEPT !.results = Append(provider.results, FALSE),
                                   !.err = ErrConnect(n),
                                   !.attempt = provider.attempt + 1,
                                   !.pc = IF provider.attempt + 1 < maxAttempts
                                          THEN "tryConnection" ELSE "return"]
    /\ UNCHANGED <<vertices, edges, nodeState, relState, nextUUID, last, codec, inflight>>

\* A NewClient that opens the session whatever tryConnection returned, and a
\* Configure that hands it over.
NewClientReturnAlways ==
    /\ provider.pc = "return"
    /\ LET sess == [nil |-> FALSE, DatabaseName |-> ValueString(provider.data["db_name"])]
       IN  provider' = [provider EXCEPT
                 !.pc = "done",
                 !.sess = sess,
                 !.diag = IF provider.err # ErrNil THEN "failed to connect to database" ELSE "none",
                 !.ResourceData = sess]
    /\ UNCHANGED <<vertices, edges, nodeState, relState, nextUUID, last, codec, inflight>>

\* The end of NewClient and of Configure: the session is opened when
\* isConnected, and becomes resp.ResourceData when err is nil.
NewClientReturn ==
    /\ provider.pc = "return"
    /\ LET isConnected == provider.err = ErrNil
           sess == IF isConnected
                   THEN [nil |-> FALSE, DatabaseName |-> ValueString(provider.data["db_name"])]
                   ELSE SessNil
       IN  provider' = [provider EXCEPT
                 !.pc = "done",
                 !.sess = sess,
                 !.diag = IF provider.err # ErrNil THEN "failed to connect to database" ELSE "none",
                 !.ResourceData = IF provider.err # ErrNil THEN SessNil ELSE sess]
    /\ UNCHANGED <<vertices, edges, nodeState, relState, nextUUID, last, codec, inflight>>

\* The type names of the Metadata methods: Name with nodeSuffix, edgeSuffix.
resourceNodeName == "neo4j_node"
resourceRelationshipName == "neo4j_relationship"

\* Provider.Resources: the constructors returned, each under the type name
\* its resource reports.
Resources == {[TypeName |-> resourceNodeName, New |-> "NewNodeResource"]}

\* The framework serves a request for a resource of type t with the resource
\* Provider.Resources registers under that name, and with an error when there
\* is none.
GetResource(t) ==
    /\ provider.pc = "done"
    /\ provider.diag = "none"
    /\ LET found == {r \in Resources : r.TypeName = t}
       IN  provider' = [provider EXCEPT !.request =
                 IF found # {}
                 THEN [TypeName |-> t, resource |-> (CHOOSE r \in found : TRUE).New,
                       diag |-> "none"]
                 ELSE [TypeName |-> t, resource |-> "none",
                       diag |-> "Resource Type Not Found"]]
    /\ UNCHANGED <<vertices, edges, nodeState, relState, nextUUID, last, codec, inflight>>

NextProvider ==
    \/ ProviderConfigure
    \/ \E ok \in BOOLEAN : NewDriverWithContext(ok)
    \/ \E ok \in BOOLEAN : VerifyConnectivity(ok)
    \/ NewClientReturn
    \/ \E t \in {resourceNodeName, resourceRelationshipName} : GetResource(t)

SpecProvider == InitProvider /\ [][NextProvider]_vars

----------------------------------------------------------------------------
\* Properties of the node and relationship lifecycle.

Ok(op) == last.op = op /\ last.diag = "none"
DeclaresReserved(p) == ~p.null /\ "uuid" \in DOMAIN p.elems
LabelSet(labels) == {ValueString(labels.elems[i]) : i \in DOMAIN labels.elems}

\* C1: after every node Create that returns without error, whatever labels
\* and properties are declared, the backend holds a vertex whose uuid property
\* equals the id written to state.
C1_CreateStoresId ==
    Ok("NodeCreate") =>
        MatchNodes(vertices, ValueString(nodeState[last.res].data.id)) # {}

\* C2: a Create or an Update, of a node or of a relationship, whose declared
\* properties contain the key uuid reports a validation error and issues no
\* backend query.
C2_ReservedKeyRejected ==
    [][\A p \in {q \in PropInputs \cup LeanPropInputs : DeclaresReserved(q)}, f \in BOOLEAN :
         (\/ \E r \in NodeRes, l \in LabelInputs :
                NodeCreate(r, l, p, f) \/ NodeUpdate(r, l, p, f)
          \/ \E r \in RelRes \cup PairRes, t \in Types, a, b \in Generated :
                RelationshipCreate(r, t, a, b, p, f) \/ RelationshipUpdate(r, t, a, b, p, f))
         => (last'.diag = "validation" /\ last'.queries = 0)]_vars

\* C3: the relationship Update is never invoked with a type different from the
\* type in the prior state; a changed type is planned as a replacement.
C3_TypeChangeReplaces ==
    [][\A r \in RelRes \cup PairRes, t \in Types, a, b \in Generated,
          p \in LeanPropInputs, f \in BOOLEAN :
         RelationshipUpdate(r, t, a, b, p, f) => TfValue(t) = relState[r].data.type]_vars

\* C4: the relationship Update is never invoked with a start_node_id or an
\* end_node_id different from the one in the prior state, a changed endpoint
\* being planned as a replacement: the state an Update writes, which is its
\* plan, has the endpoints of the prior state.
C4_EndpointChangeReplaces ==
    [][(last'.op = "RelationshipUpdate" /\ last'.wrote) =>
         LET r == last'.res
         IN  /\ relState'[r].data.start_node_id = relState[r].data.start_node_id
             /\ relState'[r].data.end_node_id = relState[r].data.end_node_id]_vars

C4_Witness ==
    /\ Ok("RelationshipUpdate")
    /\ last.hit # {}
    /\ relState[last.res].data.start_node_id # relState[last.res].data.end_node_id

\* C5: after a relationship ImportState, start_node_id in the state is the
\* uuid of the start vertex of the imported edge and end_node_id is the uuid of
\* its end vertex.
C5_ImportRecoversEndpoints ==
    Ok("RelationshipImportState") =>
        \A x \in last.hit :
            /\ HasUUID(vertices[edges[x].start].props,
                       ValueString(relState[last.res].data.start_node_id))
            /\ HasUUID(vertices[edges[x].end].props,
                       ValueString(relState[last.res].data.end_node_id))

\* C6: a property map without the reserved key that is encoded on Create
\* and decoded on Read comes back equal, key for key and value for value.
C6_CodecRoundTrip ==
    (codec.pc = "read" /\ ~DeclaresReserved(codec.in)) => codec.out = codec.in

\* C7: a Read right after a Create or an Update of the same node or
\* relationship leaves properties null in the state when they were declared
\* absent, and the empty map when they were declared {}.
C7_NullAndEmptyProperties ==
    [][/\ \A r \in NodeRes :
            (/\ Ok("NodeCreate") \/ Ok("NodeUpdate")
             /\ last.res = r
             /\ last'.op = "NodeRead" /\ last'.res = r
             /\ last'.diag = "none")
            => /\ nodeState[r].data.properties.null => nodeState'[r].data.properties.null
               /\ nodeState[r].data.properties = MapValue(<<>>)
                    => nodeState'[r].data.properties = MapValue(<<>>)
       /\ \A r \in RelRes \cup PairRes :
            (/\ Ok("RelationshipCreate") \/ Ok("RelationshipUpdate")
             /\ last.res = r
             /\ last'.op = "RelationshipRead" /\ last'.res = r
             /\ last'.diag = "none")
            => /\ relState[r].data.properties.null => relState'[r].data.properties.null
               /\ relState[r].data.properties = MapValue(<<>>)
                    => relState'[r].data.properties = MapValue(<<>>)]_vars

\* C8: a Read right after a Create or an Update of a node leaves labels null
\* in the state when no labels were declared, and the empty list when
\* labels = [] was declared.
C8_NullAndEmptyLabels ==
    [][\A r \in NodeRes :
         (/\ Ok("NodeCreate") \/ Ok("NodeUpdate")
          /\ last.res = r
          /\ last'.op = "NodeRead" /\ last'.res = r
          /\ last'.diag = "none")
         => /\ nodeState[r].data.labels.null => nodeState'[r].data.labels.null
            /\ nodeState[r].data.labels = ListValue(<<>>)
                 => nodeState'[r].data.labels = ListValue(<<>>)]_vars

C8_Witness ==
    /\ Ok("NodeRead")
    /\ nodeState[last.res].data.labels = ListValue(<<>>)
    /\ \A v \in last.hit : vertices[v].labels = {}

\* C9: the vertex a Create makes carries exactly the set of the declared
\* labels, and a Read right after the Create returns labels with that same set
\* of elements, whatever the order and the duplicates of the declared list.
C9_LabelsAsSet ==
    [][/\ (last'.op = "NodeCreate" /\ last'.diag = "none") =>
            \A v \in last'.hit :
                vertices'[v].labels = LabelSet(nodeState'[last'.res].data.labels)
       /\ \A r \in NodeRes :
            (/\ Ok("NodeCreate")
             /\ last.res = r
             /\ last'.op = "NodeRead" /\ last'.res = r
             /\ last'.diag = "none")
            => LabelSet(nodeState'[r].data.labels) = LabelSet(nodeState[r].data.labels)]_vars

C9_Witness ==
    /\ Ok("NodeRead")
    /\ nodeState[last.res].data.labels = ListValue(<<TfValue("foo"), TfValue("bar")>>)

\* C10: after a node Update that found its vertex, the vertex carries exactly
\* the set of the labels of the plan, and exactly the properties of the plan,
\* each as its parsed value, with uuid equal to the id.
C10_UpdateReplaces ==
    Ok("NodeUpdate") =>
        \A v \in last.hit :
            LET plan == nodeState[last.res].data
                declared == IF plan.properties.null THEN <<>> ELSE plan.properties.elems
            IN  /\ vertices[v].labels = LabelSet(plan.labels)
                /\ DOMAIN vertices[v].props = DOMAIN declared \cup {"uuid"}
                /\ vertices[v].props["uuid"] = StrVal(ValueString(plan.id))
                /\ \A k \in DOMAIN declared \ {"uuid"} :
                        vertices[v].props[k] = ParseValue(ValueString(declared[k]))

C10_Witness ==
    /\ Ok("NodeUpdate")
    /\ last.hit # {}
    /\ nodeState[last.res].data.labels.null
    /\ nodeState[last.res].data.properties = MapValue(<<>>)

\* C11: a node or relationship Update applied a second time in succession,
\* with the same id and the same planned labels and properties, leaves the
\* backend as the first application left it.
C11_UpdateIdempotent ==
    [][/\ (/\ Ok("NodeUpdate")
            /\ last'.op = "NodeUpdate" /\ last'.diag = "none" /\ last'.res = last.res
            /\ nodeState'[last.res] = nodeState[last.res])
           => (vertices' = vertices /\ edges' = edges)
       /\ (/\ Ok("RelationshipUpdate")
            /\ last'.op = "RelationshipUpdate" /\ last'.diag = "none" /\ last'.res = last.res
            /\ relState'[last.res] = relState[last.res])
           => (vertices' = vertices /\ edges' = edges)]_vars

C11_Witness ==
    /\ Ok("NodeUpdate")
    /\ nodeState[last.res].data.labels = ListValue(<<TfValue("foo")>>)
    /\ \E v \in last.hit : vertices[v].labels = {"foo"} /\ "foo" \in DOMAIN vertices[v].props

\* C12: a Read or an Update of a node or relationship leaves the id in the
\* state as it was, generates no id, and leaves the uuid property of every
\* backend entity that carried that id equal to it.
C12_IdStable ==
    [][/\ last'.op \in {"NodeRead", "NodeUpdate"} =>
            LET r == last'.res
                id == ValueString(nodeState[r].data.id)
            IN  /\ nodeState'[r].data.id = nodeState[r].data.id
                /\ nextUUID' = nextUUID
                /\ \A v \in MatchNodes(vertices, id) :
                        v \in DOMAIN vertices' /\ HasUUID(vertices'[v].props, id)
       /\ last'.op \in {"RelationshipRead", "RelationshipUpdate"} =>
            LET r == last'.res
                id == ValueString(relState[r].data.id)
            IN  /\ relState'[r].data.id = relState[r].data.id
                /\ nextUUID' = nextUUID
                /\ \A x \in {y \in DOMAIN edges : HasUUID(edges[y].props, id)} :
                        x \in DOMAIN edges' /\ HasUUID(edges'[x].props, id)]_vars

C12_Witness ==
    /\ Ok("RelationshipUpdate")
    /\ relState[last.res].data.properties = MapValue([k \in {"uuid"} |-> TfValue(<<"7">>)])
    /\ \E x \in last.hit : HasUUID(edges[x].props, last.id)

WithUUID(es, uuid) == {x \in DOMAIN es : HasUUID(es[x].props, uuid)}

\* C13: after a node or relationship Delete that returns without error the
\* backend holds no vertex, respectively no edge, with the uuid of the former
\* id, and an ImportState by that id right after it reports not found.
C13_DeleteThenNotFound ==
    [][/\ (last'.op = "NodeDelete" /\ last'.diag = "none")
            => MatchNodes(vertices', last'.id) = {}
       /\ (last'.op = "RelationshipDelete" /\ last'.diag = "none")
            => WithUUID(edges', last'.id) = {}
       /\ (/\ Ok("NodeDelete") \/ Ok("RelationshipDelete")
           /\ last'.op = (IF last.op = "NodeDelete" THEN "NodeImportState"
                          ELSE "RelationshipImportState")
           /\ last'.id = last.id /\ last'.diag # "backend")
            => last'.diag = "notfound"]_vars

\* C14: after a node Delete that returns without error the backend holds no
\* vertex with that uuid and none of the edges that started or ended at one,
\* and every remaining edge has both its vertices.
C14_NodeDeleteDetaches ==
    [][(last'.op = "NodeDelete" /\ last'.diag = "none") =>
         /\ MatchNodes(vertices', last'.id) = {}
         /\ \A x \in DOMAIN edges :
                (edges[x].start \in last'.hit \/ edges[x].end \in last'.hit)
                    => x \notin DOMAIN edges'
         /\ \A x \in DOMAIN edges' :
                edges'[x].start \in DOMAIN vertices' /\ edges'[x].end \in DOMAIN vertices']_vars

C14_Witness ==
    /\ Ok("NodeDelete")
    /\ last.hit # {}
    /\ edges = <<>>
    /\ \E r \in RelRes : /\ relState[r].exists
                         /\ relState[r].data.start_node_id = TfValue(last.id)
                         /\ relState[r].data.end_node_id = TfValue(last.id)

\* C15: a relationship Delete leaves every vertex as it was and every edge as
\* it was, except the edges with the uuid of the id, which it may remove.
C15_RelationshipDeleteFrame ==
    [][last'.op = "RelationshipDelete" =>
         /\ vertices' = vertices
         /\ DOMAIN edges' \subseteq DOMAIN edges
         /\ \A x \in DOMAIN edges :
                \/ x \in DOMAIN edges' /\ edges'[x] = edges[x]
                \/ last'.diag = "none" /\ x \in last'.hit /\ HasUUID(edges[x].props, last'.id)]_vars

C15_Witness ==
    /\ Ok("RelationshipDelete")
    /\ last.hit # {}
    /\ Cardinality(DOMAIN vertices) = 2
    /\ edges = <<>>

\* C16: a relationship Create whose properties are valid and whose query does
\* not fail, for a start or an end id that no vertex carries, returns without
\* error, binds no edge and leaves vertices and edges as they were.
C16_MissingEndpointSilent ==
    [][last'.op = "RelationshipCreate" =>
         \A t \in Types, a, b \in Generated, p \in LifePropInputs :
            (/\ EndpointRows(vertices, a, b) = {}
             /\ ~readProperties(p).err
             /\ RelationshipCreate(last'.res, t, a, b, p, FALSE))
            => (/\ last'.diag = "none" /\ last'.hit = {}
                /\ vertices' = vertices /\ edges' = edges)]_vars

C16_Witness ==
    /\ Ok("RelationshipCreate")
    /\ last.hit = {}
    /\ relState[last.res].exists
    /\ MatchNodes(vertices, ValueString(relState[last.res].data.start_node_id)) # {}
    /\ MatchNodes(vertices, ValueString(relState[last.res].data.end_node_id)) = {}

NonUUID(props) == [k \in DOMAIN props \ {"uuid"} |-> TfValue(FormatValue(props[k]))]

\* C17: a Read that finds the entity leaves properties null in the state when
\* the entity has no property other than uuid and the prior value is null, and
\* in every other case writes exactly the entity's properties other than uuid,
\* the empty map when it has none.
C17_ReadProperties ==
    [][/\ (last'.op = "NodeRead" /\ last'.diag = "none") =>
            \A v \in last'.hit :
                LET r == last'.res
                    backend == NonUUID(vertices[v].props)
                IN  nodeState'[r].data.properties =
                        IF DOMAIN backend = {} /\ nodeState[r].data.properties.null
                        THEN MapNull ELSE MapValue(backend)
       /\ (last'.op = "RelationshipRead" /\ last'.diag = "none") =>
            \A x \in last'.hit :
                LET r == last'.res
                    backend == NonUUID(edges[x].props)
                IN  relState'[r].data.properties =
                        IF DOMAIN backend = {} /\ relState[r].data.properties.null
                        THEN MapNull ELSE MapValue(backend)]_vars

\* C18: a Read or an ImportState whose query does not fail, for an id that no
\* backend entity carries, reports not found and leaves the state as it was.
C18_NotFoundWritesNothing ==
    [][/\ (/\ last'.op \in {"NodeRead", "NodeImportState"}
           /\ MatchNodes(vertices, last'.id) = {}
           /\ last'.diag # "backend")
            => (last'.diag = "notfound" /\ ~last'.wrote /\ nodeState' = nodeState)
       /\ (/\ last'.op \in {"RelationshipRead", "RelationshipImportState"}
           /\ WithUUID(edges, last'.id) = {}
           /\ last'.diag # "backend")
            => (last'.diag = "notfound" /\ ~last'.wrote /\ relState' = relState)]_vars

C18_Witness ==
    /\ last.op = "NodeImportState"
    /\ last.diag = "notfound"
    /\ ~nodeState[last.res].exists
    /\ relState[1].exists

SameLabels(a, b) == a.null = b.null /\ LabelSet(a) = LabelSet(b)

\* C19 as stated: a node ImportState by the id of the state, right after a
\* Read, finding the vertex the Read found, yields the model of the state: the
\* same id, the same labels (as a set, null and [] kept apart) and the same
\* properties.
C19_ImportEqualsRead ==
    [][(/\ Ok("NodeRead")
        /\ last'.op = "NodeImportState" /\ last'.diag = "none"
        /\ last'.res = last.res /\ last'.id = last.id /\ last'.hit = last.hit)
       => LET r == last.res
          IN  /\ nodeState'[r].data.id = nodeState[r].data.id
              /\ SameLabels(nodeState'[r].data.labels, nodeState[r].data.labels)
              /\ nodeState'[r].data.properties = nodeState[r].data.properties]_vars

\* C19 as amended: the ImportState yields the id, the labels and the
\* properties of the state, except that labels are null when the vertex has no
\* labels and properties are null when it has no property other than uuid.
C19_ImportEqualsReadUnlessEmpty ==
    [][(/\ Ok("NodeRead")
        /\ last'.op = "NodeImportState" /\ last'.diag = "none"
        /\ last'.res = last.res /\ last'.id = last.id /\ last'.hit = last.hit)
       => \A v \in last'.hit :
            LET r == last.res
            IN  /\ nodeState'[r].data.id = nodeState[r].data.id
                /\ IF vertices[v].labels = {}
                   THEN nodeState'[r].data.labels = ListNull
                   ELSE SameLabels(nodeState'[r].data.labels, nodeState[r].data.labels)
                /\ IF DOMAIN NonUUID(vertices[v].props) = {}
                   THEN nodeState'[r].data.properties = MapNull
                   ELSE nodeState'[r].data.properties = nodeState[r].data.properties]_vars

C19_Witness ==
    /\ Ok("NodeImportState")
    /\ nodeState[last.res].data.id = TfValue(last.id)
    /\ LabelSet(nodeState[last.res].data.labels) = {"foo", "bar"}
    /\ nodeState[last.res].data.properties = MapValue([k \in {"foo"} |-> TfValue(<<"1", "0", "0">>)])

BadList(l) == ~l.null /\ \E i \in DOMAIN l.elems : l.elems[i].kind # "value"
BadMap(p) == ~p.null /\ \E k \in DOMAIN p.elems : p.elems[k].kind # "value"

BadNodeInputs ==
    {c \in LifeLabelInputs \X LifeUpdateInputs : BadList(c[1]) \/ BadMap(c[2])}
BadRelInputs == {p \in LifeUpdateInputs : BadMap(p)}

\* C20: a Create or an Update with a null or unknown label element, or a null
\* or unknown property value, reports a validation error, issues no backend
\* query, and leaves the state and the backend as they were.  A call that
\* writes the state wrote its input, which is then no such input; a call that
\* reports a backend error is the call of no such input.
C20_NullOrUnknownRejected ==
    [][/\ last'.op \in {"NodeCreate", "NodeUpdate"} =>
            \/ /\ last'.diag = "validation" /\ last'.queries = 0 /\ ~last'.wrote
               /\ nodeState' = nodeState /\ vertices' = vertices /\ edges' = edges
            \/ /\ last'.wrote
               /\ ~BadList(nodeState'[last'.res].data.labels)
               /\ ~BadMap(nodeState'[last'.res].data.properties)
            \/ /\ ~last'.wrote
               /\ \A c \in BadNodeInputs, f \in BOOLEAN :
                     /\ ~NodeCreate(last'.res, c[1], c[2], f)
                     /\ ~NodeUpdate(last'.res, c[1], c[2], f)
       /\ last'.op \in {"RelationshipCreate", "RelationshipUpdate"} =>
            \/ /\ last'.diag = "validation" /\ last'.queries = 0 /\ ~last'.wrote
               /\ relState' = relState /\ vertices' = vertices /\ edges' = edges
            \/ /\ last'.wrote
               /\ ~BadMap(relState'[last'.res].data.properties)
            \/ /\ ~last'.wrote
               /\ \A t \in Types, a, b \in Generated, p \in BadRelInputs, f \in BOOLEAN :
                     /\ ~RelationshipCreate(last'.res, t, a, b, p, f)
                     /\ ~RelationshipUpdate(last'.res, t, a, b, p, f)]_vars

C20_Witness ==
    /\ last.op = "NodeUpdate"
    /\ last.diag = "validation"
    /\ last.queries = 0
    /\ nodeState[last.res].exists

WriteOps ==
    {"NodeCreate", "NodeUpdate", "NodeDelete",
     "RelationshipCreate", "RelationshipUpdate", "RelationshipDelete"}

\* C21: when the backend query of a Create, Update or Delete returns an error,
\* the operation reports the error after that one query (no retry) and writes
\* no state: the state of every resource is what it was, so a failed Create
\* leaves the resource without id and a failed Delete leaves the prior
\* attributes.
C21_BackendErrorAborts ==
    [][(last'.op \in WriteOps /\ last'.diag = "backend") =>
          /\ last'.queries = 1
          /\ ~last'.wrote
          /\ nodeState' = nodeState
          /\ relState' = relState
          /\ (last'.op = "NodeCreate" => ~nodeState'[last'.res].exists)
          /\ (last'.op = "RelationshipCreate" => ~relState'[last'.res].exists)
          /\ (last'.op = "NodeDelete" =>
                 /\ nodeState'[last'.res].exists
                 /\ nodeState'[last'.res].data.id = TfValue(last'.id))
          /\ (last'.op = "RelationshipDelete" =>
                 /\ relState'[last'.res].exists
                 /\ relState'[last'.res].data.id = TfValue(last'.id))]_vars

\* A Delete of a node with a label has failed: the state still holds the id
\* and the label, and the vertex is still there.
C21_Witness ==
    /\ last.op = "NodeDelete" /\ last.diag = "backend"
    /\ nodeState[1].exists
    /\ nodeState[1].data.id = TfValue(last.id)
    /\ ~nodeState[1].data.labels.null
    /\ MatchNodes(vertices, last.id) # {}

LifecycleOps ==
    WriteOps \cup {"NodeRead", "NodeImportState", "RelationshipRead", "RelationshipImportState"}

\* C22: every lifecycle operation of a node or a relationship (Create, Read,
\* Update, Delete, ImportState) calls client.Run at most once, and exactly
\* once unless it returned on an input validation error.
C22_OneQueryPerOperation ==
    last.op \in LifecycleOps =>
        /\ last.queries <= 1
        /\ (last.diag # "validation" => last.queries = 1)
        /\ (last.diag = "validation" => last.queries = 0)

\* A relationship Update has passed validation and its one query has set the
\* properties of the edge.
C22_Witness ==
    /\ last.op = "RelationshipUpdate" /\ last.diag = "none"
    /\ last.queries = 1
    /\ last.hit # {}

----------------------------------------------------------------------------
\* Properties of the provider configuration.

Returned == provider.pc \in {"return", "done"} /\ provider.err # ErrDriver

\* C23: the connection bootstrap makes at most 3 connectivity checks; no
\* check follows one that succeeded, so it returns success at the first check
\* that succeeds; and it returns an error only after 3 failed checks, the
\* error being that of the last one.
C23_BoundedRetry ==
    /\ Len(provider.results) <= 3
    /\ \A i \in 1..(Len(provider.results) - 1) : ~provider.results[i]
    /\ (provider.pc = "tryConnection" => Len(provider.results) < 3)
    /\ (Returned =>
          /\ provider.results # <<>>
          /\ (provider.err = ErrNil <=> provider.results[Len(provider.results)])
          /\ (provider.err # ErrNil =>
                 /\ provider.results = <<FALSE, FALSE, FALSE>>
                 /\ provider.err = ErrConnect(3)))

\* The second check succeeded after the first failed, and Configure returned.
C23_Witness ==
    /\ provider.pc = "done"
    /\ provider.results = <<FALSE, TRUE>>
    /\ provider.err = ErrNil

\* C24: when the driver cannot be created or every connectivity check fails,
\* NewClient returns a nil session and an error, Configure reports the error
\* and sets no ResourceData; ResourceData is a session only when the last
\* connectivity check succeeded.
C24_NoSessionOnError ==
    /\ (provider.pc = "done" /\ provider.err # ErrNil =>
          /\ provider.sess = SessNil
          /\ provider.diag = "failed to connect to database"
          /\ provider.ResourceData = SessNil)
    /\ (provider.pc = "done" /\ provider.err = ErrNil =>
          /\ provider.diag = "none"
          /\ ~provider.sess.nil
          /\ provider.ResourceData = provider.sess)
    /\ (~provider.ResourceData.nil =>
          /\ provider.results # <<>>
          /\ provider.results[Len(provider.results)])

\* Three connectivity checks have failed and Configure has returned.
C24_Witness ==
    /\ provider.pc = "done"
    /\ provider.err = ErrConnect(3)
    /\ provider.ResourceData = SessNil

HasValue(v) == v.kind = "value" /\ v.s # <<>>

\* C25: for each of db_uri, db_user, db_password and db_name a non-empty
\* value of the provider configuration is used as it is, and the environment
\* variable is read exactly when the configuration has no value (null,
\* unknown) or the empty one, its value then being used; db_name is "neo4j"
\* when neither the configuration nor DB_NAME gives a value.
C25_ConfigBeforeEnvironment ==
    provider.pc \notin {"off", "Configure"} =>
        \A f \in Fields :
            /\ (HasValue(provider.config[f]) =>
                   /\ provider.data[f] = provider.config[f]
                   /\ EnvOf(f) \notin provider.getenv)
            /\ (~HasValue(provider.config[f]) =>
                   /\ EnvOf(f) \in provider.getenv
                   /\ (provider.env[EnvOf(f)] # <<>> =>
                          provider.data[f] = TfValue(provider.env[EnvOf(f)]))
                   /\ (provider.env[EnvOf(f)] = <<>> =>
                          provider.data[f] =
                             TfValue(IF f = "db_name" THEN DefaultName ELSE <<>>)))

\* db_uri comes from the configuration although DB_URI is set, db_user from
\* DB_USER, and db_name is the default.
C25_Witness ==
    /\ provider.pc = "done"
    /\ provider.config["db_uri"] = TfValue(<<"c">>)
    /\ provider.env["DB_URI"] = <<"e">>
    /\ provider.data["db_uri"] = TfValue(<<"c">>)
    /\ provider.config["db_user"] = TfNull
    /\ provider.data["db_user"] = TfValue(<<"e">>)
    /\ provider.config["db_name"] = TfValue(<<>>)
    /\ provider.env["DB_NAME"] = <<>>
    /\ provider.data["db_name"] = TfValue(DefaultName)
    /\ provider.sess.DatabaseName = DefaultName

----------------------------------------------------------------------------
\* Properties of the stored values.

\* The value the backend is to hold for a declared string.
Stored(s) ==
    IF ParseIntOk(s) THEN IntVal(HasSign(s) /\ s[1] = "-", DigitsToNat(Unsigned(s)))
    ELSE IF ParseFloatOk(s) THEN ParseFloat(s)
    ELSE StrVal(s)

StoredAs(props, declared) ==
    \A k \in DOMAIN declared \ {"uuid"} :
        LET s == ValueString(declared[k])
        IN  /\ declared[k].kind = "value"
            /\ k \in DOMAIN props
            /\ props[k] = Stored(s)
            /\ (s = <<"1", "0", "0">> => props[k] = IntVal(FALSE, 100))
            /\ (s = <<"1", ".", "2">> => props[k] = FloatVal(FALSE, 12, 1))
            /\ (s = <<"q", "u", "x">> => props[k] = StrVal(s))
            /\ (s = <<"7", ".">> => props[k] = FloatVal(FALSE, 7, 0))

Declared(properties) == IF properties.null THEN <<>> ELSE properties.elems

\* C26: after a Create or an Update of a node or a relationship, each
\* declared property other than uuid is held by the backend element as an
\* integer when its string parses as a base-10 int64, else as a float when it
\* parses as a float64, else as the string, while the state holds the
\* declared string: backend 100, "qux", 1.2 for state "100", "qux", "1.2".
C26_TypedStorage ==
    /\ (Ok("NodeCreate") \/ Ok("NodeUpdate")) =>
          \A v \in last.hit :
              StoredAs(vertices[v].props, Declared(nodeState[last.res].data.properties))
    /\ (Ok("RelationshipCreate") \/ Ok("RelationshipUpdate")) =>
          \A x \in last.hit :
              StoredAs(edges[x].props, Declared(relState[last.res].data.properties))

\* The node of the acceptance test: state "100", "qux", "1.2", backend 100,
\* "qux", 1.2.
C26_Witness ==
    /\ Ok("NodeCreate")
    /\ Declared(nodeState[1].data.properties) =
          [k \in {"foo", "bar", "quux"} |->
              CASE k = "foo" -> TfValue(<<"1", "0", "0">>)
                [] k = "bar" -> TfValue(<<"q", "u", "x">>)
                [] k = "quux" -> TfValue(<<"1", ".", "2">>)]
    /\ \E v \in last.hit :
          /\ vertices[v].props["foo"] = IntVal(FALSE, 100)
          /\ vertices[v].props["bar"] = StrVal(<<"q", "u", "x">>)
          /\ vertices[v].props["quux"] = FloatVal(FALSE, 12, 1)

\* C27: a relationship Update that returns without error leaves the edge of
\* the resource, the one whose uuid is the id, with exactly the declared
\* properties, each as its parsed value, and uuid equal to the id, whatever
\* the edge held before, and with the type, the start vertex and the end
\* vertex it had; no other edge and no vertex changes.
C27_RelationshipUpdateReplaces ==
    [][(last'.op = "RelationshipUpdate" /\ last'.diag = "none") =>
          /\ vertices' = vertices
          /\ DOMAIN edges' = DOMAIN edges
          /\ \A x \in DOMAIN edges \ WithUUID(edges, last'.id) : edges'[x] = edges[x]
          /\ \A x \in WithUUID(edges, last'.id) :
                LET declared == Declared(relState'[last'.res].data.properties)
                IN  /\ edges'[x].type = edges[x].type
                    /\ edges'[x].start = edges[x].start
                    /\ edges'[x].end = edges[x].end
                    /\ DOMAIN edges'[x].props = DOMAIN declared \cup {"uuid"}
                    /\ edges'[x].props["uuid"] = StrVal(last'.id)
                    /\ \A k \in DOMAIN declared \ {"uuid"} :
                          edges'[x].props[k] = Stored(ValueString(declared[k]))]_vars

\* C28: a Delete that returns without error has written a state whose id,
\* labels and properties (node), or id, type, start_node_id, end_node_id and
\* properties (relationship), are all null.
C28_DeleteWritesNull ==
    /\ Ok("NodeDelete") =>
          /\ last.wrote
          /\ nodeState[last.res].data = NodeResourceModel(TfNull, ListNull, MapNull)
    /\ Ok("RelationshipDelete") =>
          /\ last.wrote
          /\ relState[last.res].data =
                RelationshipResourceModel(TfNull, TfNull, TfNull, TfNull, MapNull)

\* A relationship whose edge was there has been deleted, and every attribute
\* of the state written is null.
C28_Witness ==
    /\ Ok("RelationshipDelete")
    /\ last.hit # {}
    /\ ~relState[last.res].exists
    /\ relState[last.res].data.type = TfNull
    /\ relState[last.res].data.properties = MapNull

\* C29: the properties a Read or an ImportState writes to the state never
\* have the key uuid, whatever the backend element holds.
C29_NoReservedKeyInState ==
    /\ (Ok("NodeRead") \/ Ok("NodeImportState")) =>
          "uuid" \notin DOMAIN Declared(nodeState[last.res].data.properties)
    /\ (Ok("RelationshipRead") \/ Ok("RelationshipImportState")) =>
          "uuid" \notin DOMAIN Declared(relState[last.res].data.properties)

\* C30: the provider registers neo4j_node and neo4j_relationship, so a
\* request for a neo4j_relationship resource is served by the relationship
\* resource, as one for a neo4j_node is by the node resource.
C30_BothResourcesRegistered ==
    /\ (provider.request.TypeName = resourceNodeName =>
          provider.request.resource = "NewNodeResource")
    /\ (provider.request.TypeName = resourceRelationshipName =>
          provider.request.resource = "NewRelationshipResource")

----------------------------------------------------------------------------
\* Properties of the backend as a whole.

\* Read of the relationship resource r would find its edge in es.
Found(r, es) ==
    MatchDirected(vertices, es, ValueString(relState[r].data.id),
                  ValueString(relState[r].data.start_node_id),
                  ValueString(relState[r].data.end_node_id)) # {}

\* C31: a relationship Create that returns without error leaves every edge
\* the backend already held as it was, uuid and properties included, so every
\* relationship that a Read found before the Create is found after it, also
\* when the new relationship has the type and the endpoints of an existing one.
C31_CreateKeepsOtherRelationships ==
    [][(last'.op = "RelationshipCreate" /\ last'.diag = "none") =>
          /\ \A x \in DOMAIN edges : x \in DOMAIN edges' /\ edges'[x] = edges[x]
          /\ \A r \in DOMAIN relState :
                (relState[r].exists /\ Found(r, edges)) => Found(r, edges')]_vars

\* C32: whenever a relationship Delete returns without error and clears the
\* state, the backend holds no edge whose uuid is the id of the resource,
\* whatever operations came before, an Update with a changed type included.
C32_DeleteRemovesEdge ==
    [][(last'.op = "RelationshipDelete" /\ last'.diag = "none"
           /\ ~relState'[last'.res].exists) =>
          \A x \in DOMAIN edges' : ~HasUUID(edges'[x].props, last'.id)]_vars

\* C33: a node Create, Read, Update or ImportState for the id X leaves every
\* vertex whose uuid is not X, and every edge, as it was in the backend.
C33_NodeFrame ==
    [][last'.op \in {"NodeCreate", "NodeRead", "NodeUpdate", "NodeImportState"} =>
          /\ edges' = edges
          /\ \A v \in DOMAIN vertices :
                ~HasUUID(vertices[v].props, last'.id) =>
                    (v \in DOMAIN vertices' /\ vertices'[v] = vertices[v])]_vars

\* An Update has changed its vertex while the backend holds another vertex
\* and an edge.
C33_Witness ==
    /\ Ok("NodeUpdate")
    /\ last.hit # {}
    /\ \E v \in DOMAIN vertices : ~HasUUID(vertices[v].props, last.id)
    /\ \E v \in last.hit : "foo" \in DOMAIN vertices[v].props
    /\ edges # <<>>

\* C34: an Update of a node or a relationship that passes validation, whose
\* query returns no error and whose id is the uuid of no vertex, respectively
\* no edge, leaves the backend as it was, reports no error and writes the
\* plan, which carries the id, to the state.
C34_UpdateOfMissingEntity ==
    [][/\ (/\ last'.op = "NodeUpdate"
            /\ last'.diag \notin {"validation", "backend"}
            /\ MatchNodes(vertices, last'.id) = {}) =>
              /\ vertices' = vertices /\ edges' = edges
              /\ last'.diag = "none" /\ last'.wrote /\ last'.hit = {}
              /\ nodeState'[last'.res].exists
              /\ nodeState'[last'.res].data.id = TfValue(last'.id)
       /\ (/\ last'.op = "RelationshipUpdate"
            /\ last'.diag \notin {"validation", "backend"}
            /\ WithUUID(edges, last'.id) = {}) =>
              /\ vertices' = vertices /\ edges' = edges
              /\ last'.diag = "none" /\ last'.wrote /\ last'.hit = {}
              /\ relState'[last'.res].exists
              /\ relState'[last'.res].data.id = TfValue(last'.id)]_vars

\* A node Update with a label and a property has returned without error
\* although no vertex has the id: the state holds the plan, the backend no
\* such vertex.
C34_Witness ==
    /\ Ok("NodeUpdate")
    /\ last.hit = {}
    /\ MatchNodes(vertices, last.id) = {}
    /\ nodeState[last.res].data.id = TfValue(last.id)
    /\ ~nodeState[last.res].data.properties.null

----------------------------------------------------------------------------
\* Properties of concurrent calls.

Completed(h) == h.pc \in {"answered", "done"} /\ h.diag = "none"

\* C35: when an Update and a Delete of the same node id run at the same time,
\* each query being one transaction, then in whichever order the two queries
\* ran the backend holds no vertex with that uuid once both have completed:
\* the Update does not make the vertex again.
C35_UpdateNeverRecreates ==
    (/\ Completed(inflight.Update)
     /\ Completed(inflight.Delete)
     /\ inflight.Update.data.id = inflight.Delete.data.id) =>
        MatchNodes(vertices, ValueString(inflight.Delete.data.id)) = {}

\* The query of the Delete ran first, that of the Update with a label and a
\* property after it, and both handlers have returned.
C35_Witness ==
    /\ inflight.order = <<"Delete", "Update">>
    /\ inflight.Update.pc = "done" /\ inflight.Update.diag = "none"
    /\ inflight.Delete.pc = "done" /\ inflight.Delete.diag = "none"
    /\ inflight.Update.data.id = inflight.Delete.data.id
    /\ ~inflight.Update.data.labels.null

\* C36: a node ImportState that finds a vertex without labels writes null
\* labels, and one that finds a vertex with no property other than uuid
\* writes null properties, whatever the vertex was created from, a declared
\* [] or {} included.
C36_ImportOfBareVertex ==
    Ok("NodeImportState") =>
        \A v \in last.hit :
            /\ (vertices[v].labels = {} => nodeState[last.res].data.labels = ListNull)
            /\ (DOMAIN NonUUID(vertices[v].props) = {} =>
                   nodeState[last.res].data.properties = MapNull)

\* A vertex with neither labels nor properties has been imported.
C36_Witness ==
    /\ Ok("NodeImportState")
    /\ last.hit # {}
    /\ \A v \in last.hit : vertices[v].labels = {} /\ DOMAIN vertices[v].props = {"uuid"}
    /\ nodeState[last.res].data = NodeResourceModel(TfValue(last.id), ListNull, MapNull)

\* An optionally signed string of decimal digits.
IsInteger(s) == Unsigned(s) # <<>> /\ IsDigits(Unsigned(s))

\* The declared integer is smaller than -(1<<63) or larger than 1<<63 - 1.
BeyondInt64(s) ==
    LET z == StripLeadingZeros(Unsigned(s))
    IN  /\ IsInteger(s)
        /\ \/ Len(z) > 19
           \/ Len(z) = 19 /\ ~DigitsLeq(z, IF s[1] = "-" THEN MinInt64 ELSE MaxInt64)

FloatNotInt(props, declared) ==
    \A k \in DOMAIN declared \ {"uuid"} :
        LET s == ValueString(declared[k])
        IN  /\ BeyondInt64(s) =>
                  /\ k \in DOMAIN props
                  /\ props[k].t = "float"
                  /\ props[k].neg = (s[1] = "-")
            /\ (s \in {MinInt64, <<"-">> \o MinInt64From9, TenTo19} => BeyondInt64(s))
            /\ (s = LongSeven => ~BeyondInt64(s) /\ props[k] = IntVal(FALSE, 7))

====
